---- MODULE Spec2Model ----
(***************************************************************************)
(* Boost.Burl: the session's redirect driver (do_request) and its          *)
(* connection pool.                                                        *)
(*                                                                         *)
(* do_request is modelled from the listing "Redirect Logic" of the         *)
(* implementation notes (doc/notes.md); session.cpp declares the members   *)
(* of session::impl and documents their steps, and defines                 *)
(* session::set_max_redirects and session::close.  The bodies of           *)
(* build_request, acquire_connection and release_connection exist nowhere  *)
(* in the repository: they are modelled from the steps session.cpp         *)
(* documents for them and from the specification (4.5, 4.6).               *)
(*                                                                         *)
(* The cookie jar is modelled from cookies.cpp. Nothing in the repository  *)
(* retries a send, retries after a 401, reads a timeout or streams a body: *)
(* the single-hop pipeline and the streamed responses are modelled from    *)
(* the specification (4.3, 4.5, 4.6).                                      *)
(*                                                                         *)
(* Spec is one call of do_request on a fresh session; SpecPool is the pool *)
(* used by several streamed responses at once; SpecSession is two requests *)
(* in sequence whose responses set cookies; SpecClose is requests on a     *)
(* session that gets closed; SpecTimeout is a request whose timeout passes *)
(* in flight; SpecPipeline is the single-hop pipeline; SpecJar is a cookie *)
(* jar under its own operations; SpecMatch is a jar that is looked up;     *)
(* SpecAuth is an http_basic_auth and an http_digest_auth (auth.cpp);      *)
(* SpecResponse is response::raise_for_status (response.hpp); SpecParse is *)
(* one call of parse_args on a command line (parse_args.cpp).              *)
(***************************************************************************)
EXTENDS Integers, Sequences, FiniteSets, TLC

\* ------------------------------------------------------------------ bounds

\* Largest value the model passes to session::set_max_redirects.
MaxRedirects == 1

\* Longest chain of consecutive redirect responses the server produces.
MaxChain == MaxRedirects + 1

\* The per-origin cap of the free lists configured for the model's session.
PoolCap == 1

\* In-flight streamed responses that can hold a connection at once.
MaxInFlight == PoolCap + 1

\* --------------------------------------------------------------- constants

\* session::impl::max_redirects_ = 30
default_max_redirects == 30

\* The requests one caller makes in sequence on a session.
SequentialRequests == 2

\* ------------------------------------------------------------------- URLs

\* A URL is [scheme, host, port, path]; port 0 is "no port in the URL" and
\* path "" an empty path.
MakeURL(s, h) == [scheme |-> s, host |-> h, port |-> 0, path |-> ""]

URLs == { MakeURL("http", "a"), MakeURL("https", "a"), MakeURL("http", "b") }

\* A default-constructed urls::url
NoURL == [scheme |-> "", host |-> "", port |-> 0, path |-> ""]

\* pool_key { host, port, https }, built from a URL (port from the scheme
\* when the URL has none).
make_pool_key(url) ==
    [ host  |-> url.host,
      port  |-> IF url.port # 0 THEN url.port
                ELSE IF url.scheme = "https" THEN 443 ELSE 80,
      https |-> url.scheme = "https" ]

PoolKeys == { make_pool_key(u) : u \in URLs }

\* --------------------------------------------------------------- responses

RedirectStatuses == {301, 302, 303, 307, 308}
FinalStatuses == {200}
Statuses == RedirectStatuses \cup FinalStatuses

\* response::is_redirect on a status code
is_redirect(s) == s = 301 \/ s = 302 \/ s = 303 \/ s = 307 \/ s = 308

\* A default-constructed response<std::string>
\* (status, the Location, Set-Cookie and Connection: close headers of its
\* message, history and url).
EmptyResponse ==
    [ status           |-> 0,
      location         |-> NoURL,
      set_cookie       |-> "",
      connection_close |-> FALSE,
      history          |-> <<>>,
      url              |-> NoURL ]

Methods == {"GET", "POST", "PUT"}

\* request_options as do_request and build_request read it, and its
\* documented allow_redirects ("unset" is an empty optional).
OptionSets ==
    [ headers_authorization : BOOLEAN,
      auth                  : BOOLEAN,
      data                  : BOOLEAN,
      allow_redirects       : {"unset", "false"} ]

\* The requests the model makes: a GET without a body, a POST and a PUT with
\* a form body, with each source of an Authorization header or none.
Requests ==
    { r \in [method : Methods, url : URLs, opts : OptionSets] :
        /\ r.opts.data = (r.method # "GET")
        /\ ~(r.opts.headers_authorization /\ r.opts.auth)
        /\ r.url.host = "a" }

\* ------------------------------------------------------------- connections

ConnIds == 1 .. (PoolCap * Cardinality(PoolKeys) + MaxInFlight + 1)
NoConn == 0
NoKey == [host |-> "", port |-> 0, https |-> FALSE]

\* Holder 0 is the do_request coroutine; 1..MaxInFlight are streamed responses.
Holders == 0 .. MaxInFlight

VARIABLES
    max_redirects_,   \* session::impl::max_redirects_
    pools_,           \* session::impl::pools_ : pool_key -> free list
    connections,      \* the connection objects: [live, key, known_good]
    held,             \* the connection each in-flight request owns
    last_release,     \* what the step before did, when it was a release_connection
    pc,               \* where do_request is
    method,           \* do_request's method parameter
    current_url,      \* do_request's current_url
    opts,             \* do_request's opts parameter
    redirects,        \* do_request's redirects counter
    resp,             \* do_request's resp
    result,           \* what do_request co_returned: [ec, resp]
    hop,              \* the request sent by the latest send_request
    prev_hop,         \* the request of the hop before, and the status it got
    received,         \* statuses read by this request, in order
    cookies_,         \* cookie_jar::cookies_ (the jar of session::impl::cookies_)
    now,              \* std::chrono::system_clock::now()
    jar_op,           \* what the step before did to the jar
    nreq,             \* requests made on the session so far
    close_called,     \* session::close() was called
    deadline_expired, \* the timeout of the request in flight has passed
    drained,          \* the streamed responses whose body was read to its end
    plan,             \* the single-hop pipeline's request plan and progress
    lookup,           \* the jar's answer to the step before, when it was a lookup
    basic_,           \* the http_basic_auth object
    basic_sent,       \* credentials -> the Authorization their object's apply set
    digest_,          \* the http_digest_auth object
    digest_clone,     \* the object its clone() returned
    challenged,       \* process_challenge was given a Digest challenge
    auth_req,         \* the request of the latest apply: before and after
    checked,          \* the latest raise_for_status: the response, what it threw
    cli               \* the latest parse_args: its argv, its result, how it read argv

vars == << max_redirects_, pools_, connections, held, last_release, pc, method, current_url,
           opts, redirects, resp, result, hop, prev_hop, received, cookies_, now, jar_op,
           nreq, close_called, deadline_expired, drained, plan, lookup, basic_,
           basic_sent, digest_, digest_clone, challenged, auth_req, checked,
           cli >>

jarVars == << cookies_, now, jar_op >>
sessionVars == << nreq, close_called, deadline_expired >>
streamVars == << drained >>
pipeVars == << plan >>
matchVars == << lookup >>
authVars == << basic_, basic_sent, digest_, digest_clone, challenged, auth_req >>
responseVars == << checked >>
cliVars == << cli >>
libVars == << authVars, responseVars, cliVars >>

\* The plan of a pipeline that has not started.
NoPlan ==
    [ pc               |-> "idle",
      url              |-> NoURL,
      auth             |-> "none",
      stale_retried    |-> FALSE,
      auth_retried     |-> FALSE,
      sends            |-> 0,
      status           |-> 0,
      www_authenticate |-> "",
      ec               |-> "" ]

poolVars == << pools_, connections, held, last_release >>
requestVars == << pc, method, current_url, opts, redirects, resp, result,
                  hop, prev_hop, received >>

NoHop == [method |-> "", url |-> NoURL, has_body |-> FALSE,
          content_type |-> FALSE, authorization |-> "", cookie |-> "",
          conn_key |-> NoKey, status |-> 0]
NoResult == [ec |-> "", resp |-> EmptyResponse]
NoOpts == [headers_authorization |-> FALSE, auth |-> FALSE, data |-> FALSE,
           allow_redirects |-> "unset"]

DeadConn == [live |-> FALSE, key |-> NoKey, known_good |-> FALSE]

\* No lookup was the step before.
NoLookup == [url |-> NoURL, cookies |-> <<>>, header |-> ""]

\* No http_basic_auth, no http_digest_auth was constructed yet.
NoBasic == [username_ |-> "", password_ |-> "", encoded_ |-> ""]
NoDigest == [username_ |-> "", password_ |-> "", realm_ |-> "", nonce_ |-> "",
             opaque_ |-> "", qop_ |-> "", algorithm_ |-> "", nc_ |-> 0]

\* The user names and passwords auth objects are constructed with.
Usernames == {"user", "admin"}
Passwords == {"pass", "secret"}
Credentials == Usernames \X Passwords

\* No apply was called yet.
NoApply == [by |-> "none", before |-> "", after |-> ""]

\* No http_error was thrown.
NoError == [status_code_ |-> 0, reason_ |-> "", url_ |-> "", what_ |-> ""]

\* No raise_for_status was called yet.
NoCheck == [status |-> 0, reason |-> "", url |-> NoURL, ok |-> TRUE,
            thrown |-> NoError]

\* burl_args as default-constructed, and a default-constructed parse_result.
\* An empty std::optional is the empty sequence.
default_args ==
    [ urls             |-> <<>>,
      data             |-> <<>>,
      output           |-> <<>>,
      follow_redirects |-> FALSE,
      verbose          |-> FALSE,
      silent           |-> FALSE ]
default_result == [ec |-> 0, error_message |-> "", args |-> default_args]

\* No parse_args was called yet.
NoParse == [argv |-> <<>>, result |-> default_result, uses |-> <<>>, called |-> FALSE]

Init ==
    /\ max_redirects_ = default_max_redirects
    /\ pools_ = [k \in PoolKeys |-> <<>>]
    /\ connections = [c \in ConnIds |-> DeadConn]
    /\ held = [h \in Holders |-> NoConn]
    /\ last_release = "none"
    /\ pc = "idle"
    /\ method = ""
    /\ current_url = NoURL
    /\ opts = NoOpts
    /\ redirects = 0
    /\ resp = EmptyResponse
    /\ result = NoResult
    /\ hop = NoHop
    /\ prev_hop = NoHop
    /\ received = <<>>
    /\ cookies_ = <<>>
    /\ now = 0
    /\ jar_op = "none"
    /\ nreq = 0
    /\ close_called = FALSE
    /\ deadline_expired = FALSE
    /\ drained = [h \in Holders |-> FALSE]
    /\ plan = NoPlan
    /\ lookup = NoLookup
    /\ basic_ = NoBasic
    /\ basic_sent = [cr \in Credentials |-> ""]
    /\ digest_ = NoDigest
    /\ digest_clone = NoDigest
    /\ challenged = FALSE
    /\ auth_req = NoApply
    /\ checked = NoCheck
    /\ cli = NoParse

\* -------------------------------------------------------------------- pool

Last(s) == s[Len(s)]
Front(s) == SubSeq(s, 1, Len(s) - 1)

\* The object a fresh std::make_unique<connection> gets: the lowest unused id.
fresh_conn ==
    CHOOSE c \in ConnIds :
        /\ ~connections[c].live
        /\ \A d \in ConnIds : d < c => connections[d].live

\* Mutant of acquire_connection: the pooled connection is handed out and
\* stays in the free list.
acquire_connection_no_pop(h, url) ==
    LET key == make_pool_key(url) IN
    IF pools_[key] # <<>>
    THEN /\ held' = [held EXCEPT ![h] = Last(pools_[key])]
         /\ last_release' = "none"
         /\ UNCHANGED << pools_, connections >>
    ELSE /\ held' = [held EXCEPT ![h] = fresh_conn]
         /\ connections' = [connections EXCEPT ![fresh_conn] =
                               [live |-> TRUE, key |-> key, known_good |-> TRUE]]
         /\ last_release' = "none"
         /\ UNCHANGED pools_

\* acquire_connection(url) for in-flight request h: the pooled connection
\* of the URL's pool_key when there is one, else a new connection.
acquire_connection(h, url) ==
    LET key == make_pool_key(url) IN
    IF pools_[key] # <<>>
    THEN /\ held' = [held EXCEPT ![h] = Last(pools_[key])]
         /\ pools_' = [pools_ EXCEPT ![key] = Front(@)]
         /\ last_release' = "none"
         /\ UNCHANGED connections
    ELSE /\ held' = [held EXCEPT ![h] = fresh_conn]
         /\ connections' = [connections EXCEPT ![fresh_conn] =
                               [live |-> TRUE, key |-> key, known_good |-> TRUE]]
         /\ last_release' = "none"
         /\ UNCHANGED pools_

\* Mutant of release_connection: the connection is pooled whether usable or
\* not.
release_connection_unchecked(h, key) ==
    LET c == held[h] IN
    /\ held' = [held EXCEPT ![h] = NoConn]
    /\ IF Len(pools_[key]) < PoolCap
       THEN /\ pools_' = [pools_ EXCEPT ![key] = Append(@, c)]
            /\ last_release' = "pooled"
            /\ UNCHANGED connections
       ELSE /\ connections' = [connections EXCEPT ![c] = DeadConn]
            /\ last_release' = "closed_full"
            /\ UNCHANGED pools_

\* Mutant of release_connection: a usable connection is pooled whatever the
\* length of the free list.
release_connection_no_cap(h, key) ==
    LET c == held[h] IN
    /\ held' = [held EXCEPT ![h] = NoConn]
    /\ IF connections[c].known_good
       THEN /\ pools_' = [pools_ EXCEPT ![key] = Append(@, c)]
            /\ last_release' = "pooled"
            /\ UNCHANGED connections
       ELSE /\ connections' = [connections EXCEPT ![c] = DeadConn]
            /\ last_release' = "closed_unusable"
            /\ UNCHANGED pools_

\* release_connection(key, std::move(conn)) by in-flight request h: a usable
\* connection goes to the free list of key unless that list is full; any
\* other connection destructs.
release_connection(h, key) ==
    LET c == held[h] IN
    /\ held' = [held EXCEPT ![h] = NoConn]
    /\ IF connections[c].known_good /\ Len(pools_[key]) < PoolCap
       THEN /\ pools_' = [pools_ EXCEPT ![key] = Append(@, c)]
            /\ last_release' = "pooled"
            /\ UNCHANGED connections
       ELSE /\ connections' = [connections EXCEPT ![c] = DeadConn]
            /\ last_release' = IF connections[c].known_good
                               THEN "closed_full" ELSE "closed_unusable"
            /\ UNCHANGED pools_

\* conn = nullptr, or conn leaving its scope: the connection destructs.
destroy_connection(h) ==
    /\ held' = [held EXCEPT ![h] = NoConn]
    /\ connections' = [connections EXCEPT ![held[h]] = DeadConn]
    /\ last_release' = "none"
    /\ UNCHANGED pools_

\* -------------------------------------------------------------- cookie jar

\* Most cookies the model puts in a jar.
MaxCookies == 2

\* Latest reading of the system clock in the model.
MaxTime == 2

\* cookie::expires of a session cookie (an empty optional).
NoExpiry == -1

\* The cookies given to cookie_jar::set.
JarCookies ==
    [ name    : {"sid"},
      value   : {"1", "2"},
      domain  : {"a"},
      path    : {"/", "/x"},
      expires : {NoExpiry, 1},
      secure  : {FALSE} ]

\* The Set-Cookie header values given to cookie_jar::set_from_header, and
\* the URLs of the requests they answer.
SetCookieHeaders ==
    {"sid=1", "t=2; Path=/x", "novalue", "sid=1; Domain=evil.com", "sid=a=b",
     "novalue; Path=/"}
JarURLs == { u \in URLs : u.scheme = "http" }

\* std::string_view::find(ch): the first position of ch in s, counted from
\* 1; 0 is npos.
find(s, ch) ==
    IF \E i \in 1 .. Len(s) : SubSeq(s, i, i) = ch
    THEN CHOOSE i \in 1 .. Len(s) :
            /\ SubSeq(s, i, i) = ch
            /\ \A j \in 1 .. (i - 1) : SubSeq(s, j, j) # ch
    ELSE 0

\* std::string_view::starts_with
starts_with(s, prefix) ==
    /\ Len(prefix) <= Len(s)
    /\ SubSeq(s, 1, Len(prefix)) = prefix

\* Mutant of cookie::is_expired: a cookie is expired from the instant of its
\* expiry on.
is_expired_at_expiry(c) ==
    IF c.expires = NoExpiry THEN FALSE ELSE now >= c.expires

\* cookie::is_expired
is_expired(c) ==
    IF c.expires = NoExpiry THEN FALSE ELSE now > c.expires

\* Mutant of cookie::matches: the secure flag is not looked at.
matches_ignoring_secure(c, url) ==
    LET host == url.host
        req_path == IF url.path = "" THEN "/" ELSE url.path
    IN  /\ ~is_expired(c)
        /\ (c.domain # host) => ~(Len(host) <= Len(c.domain))
        /\ starts_with(req_path, c.path)

\* cookie::matches(url)
matches(c, url) ==
    LET host == url.host
        req_path == IF url.path = "" THEN "/" ELSE url.path
    IN  /\ ~is_expired(c)
        /\ ~(c.secure /\ url.scheme # "https")
        /\ (c.domain # host) => ~(Len(host) <= Len(c.domain))
        /\ starts_with(req_path, c.path)

\* The comparison of cookie_jar::set and cookie_jar::remove.
same_key(existing, name, domain, path) ==
    /\ existing.name = name
    /\ existing.domain = domain
    /\ existing.path = path

\* std::find_if over cookies_ for a (name, domain, path): the position of the
\* first match, 0 for end().
find_cookie(jar, name, domain, path) ==
    IF \E i \in 1 .. Len(jar) : same_key(jar[i], name, domain, path)
    THEN CHOOSE i \in 1 .. Len(jar) :
            /\ same_key(jar[i], name, domain, path)
            /\ \A j \in 1 .. (i - 1) : ~same_key(jar[j], name, domain, path)
    ELSE 0

\* std::vector::erase(it)
erase(jar, i) == SubSeq(jar, 1, i - 1) \o SubSeq(jar, i + 1, Len(jar))

\* Mutant of jar_set: the cookie is appended without looking for an entry
\* of the same key.
jar_set_no_erase(jar, c) == Append(jar, c)

\* Mutant of jar_set: an entry of the same key is overwritten where it
\* lies.
jar_set_in_place(jar, c) ==
    LET it == find_cookie(jar, c.name, c.domain, c.path)
    IN  IF it # 0 THEN [jar EXCEPT ![it] = c] ELSE Append(jar, c)

\* cookie_jar::set(c) on the vector jar
jar_set(jar, c) ==
    LET it == find_cookie(jar, c.name, c.domain, c.path)
    IN  Append(IF it # 0 THEN erase(jar, it) ELSE jar, c)

\* Mutant of jar_set_from_header: the header is not cut at its first ";".
jar_set_from_header_uncut(jar, set_cookie_header, request_url) ==
    LET name_value == set_cookie_header
        eq == find(name_value, "=")
    IN  IF eq = 0 THEN jar
        ELSE jar_set(jar,
                [ name    |-> SubSeq(name_value, 1, eq - 1),
                  value   |-> SubSeq(name_value, eq + 1, Len(name_value)),
                  domain  |-> request_url.host,
                  path    |-> "/",
                  expires |-> NoExpiry,
                  secure  |-> FALSE ])

\* cookie_jar::set_from_header(set_cookie_header, request_url)
jar_set_from_header(jar, set_cookie_header, request_url) ==
    LET semi == find(set_cookie_header, ";")
        name_value == IF semi = 0 THEN set_cookie_header
                      ELSE SubSeq(set_cookie_header, 1, semi - 1)
        eq == find(name_value, "=")
    IN  IF eq = 0 THEN jar
        ELSE jar_set(jar,
                [ name    |-> SubSeq(name_value, 1, eq - 1),
                  value   |-> SubSeq(name_value, eq + 1, Len(name_value)),
                  domain  |-> request_url.host,
                  path    |-> "/",
                  expires |-> NoExpiry,
                  secure  |-> FALSE ])

\* cookie_jar::get_cookies(url)
get_cookies(jar, url) == SelectSeq(jar, LAMBDA c : matches(c, url))

\* The loop of cookie_jar::get_cookie_header over the matching cookies.
RECURSIVE join_pairs(_)
join_pairs(cs) ==
    IF cs = <<>> THEN ""
    ELSE IF Len(cs) = 1 THEN cs[1].name \o "=" \o cs[1].value
    ELSE join_pairs(Front(cs)) \o "; " \o Last(cs).name \o "=" \o Last(cs).value

\* Mutant of cookie_jar::get_cookie_header: the separator is written before
\* every pair, the first one included.
get_cookie_header_no_first(jar, url) ==
    IF get_cookies(jar, url) = <<>> THEN ""
    ELSE "; " \o join_pairs(get_cookies(jar, url))

\* cookie_jar::get_cookie_header(url)
get_cookie_header(jar, url) == join_pairs(get_cookies(jar, url))

\* cookie_jar::remove(name, domain, path)
jar_remove(jar, name, domain, path) ==
    LET it == find_cookie(jar, name, domain, path)
    IN  IF it # 0 THEN erase(jar, it) ELSE jar

\* Mutant of jar_remove_expired: every cookie with an expiry is removed.
jar_remove_expired_with_expiry(jar) ==
    SelectSeq(jar, LAMBDA c : c.expires = NoExpiry)

\* cookie_jar::remove_expired()
jar_remove_expired(jar) == SelectSeq(jar, LAMBDA c : ~is_expired(c))

\* ----------------------------------------------------------- build_request

\* Mutant of update_cookie_jar: the Set-Cookie of a redirect response is
\* dropped.
update_cookie_jar_final_only(jar, status, set_cookie, url) ==
    IF set_cookie = "" \/ is_redirect(status) THEN jar
    ELSE jar_set_from_header(jar, set_cookie, url)

\* read_response, step 5: the jar is updated from the Set-Cookie header of
\* the response, whatever its status, with the URL of the request.
update_cookie_jar(jar, status, set_cookie, url) ==
    IF set_cookie = "" THEN jar
    ELSE jar_set_from_header(jar, set_cookie, url)

\* build_request(method, url, opts): the per-request headers of opts are
\* applied, then the authentication when one is set (its Authorization
\* replaces a header of the same name); Content-Type and body are set when
\* opts.data (or opts.json) is; the Cookie header is what the jar gives for
\* the URL.
build_request(m, url, o) ==
    [ method        |-> m,
      url           |-> url,
      has_body      |-> o.data,
      content_type  |-> o.data,
      authorization |-> IF o.auth THEN "scheme"
                        ELSE IF o.headers_authorization THEN "header"
                        ELSE "none",
      cookie        |-> get_cookie_header(cookies_, url) ]

\* ------------------------------------------------------------- do_request

\* urls::resolve(base, reference): a reference without a scheme is relative
\* and inherits scheme, host and port of the base.
resolve(base, ref) == IF ref.scheme = "" THEN base ELSE ref

\* Mutant of should_break: the limit is compared with > instead of >=.
should_break_off_by_one(status, n, max) == ~is_redirect(status) \/ n > max

\* if (!resp.is_redirect() || redirects >= max_redirects_) break;
should_break(status, n, max) == ~is_redirect(status) \/ n >= max

\* Mutant of method_after_redirect: 301 and 302 rewrite every method to GET.
method_after_redirect_301_302(status, m) ==
    IF status \in {301, 302, 303} THEN "GET" ELSE m

\* if (resp.status() == http::status::see_other) method = http::method::get;
method_after_redirect(status, m) == IF status = 303 THEN "GET" ELSE m

\* resp.history.push_back(std::move(resp)); resp = {};
\* The push moves resp into a new element of its own history (the vector is
\* empty and without capacity whenever this runs, so the element is built in
\* fresh storage); the assignment that follows replaces resp, history
\* included, by a default-constructed response.
history_push_and_reset(r) == EmptyResponse

\* Number of redirect statuses in a sequence of statuses.
RECURSIVE CountRedirects(_)
CountRedirects(s) ==
    IF s = <<>> THEN 0
    ELSE (IF is_redirect(Last(s)) THEN 1 ELSE 0) + CountRedirects(Front(s))

\* session::set_max_redirects(n), before the request is made.
set_max_redirects(n) ==
    /\ pc = "idle"
    /\ max_redirects_' = n
    /\ UNCHANGED << poolVars, requestVars >>
    /\ UNCHANGED jarVars
    /\ UNCHANGED sessionVars
    /\ UNCHANGED streamVars
    /\ UNCHANGED pipeVars
    /\ UNCHANGED matchVars
    /\ UNCHANGED libVars

\* do_request(method, url, opts) is entered: redirects = 0, current_url = url,
\* resp default-constructed.
StartRequest(m, url, o) ==
    /\ pc = "idle"
    /\ pc' = "acquire"
    /\ method' = m
    /\ current_url' = url
    /\ opts' = o
    /\ redirects' = 0
    /\ resp' = EmptyResponse
    /\ result' = NoResult
    /\ hop' = NoHop
    /\ prev_hop' = NoHop
    /\ received' = <<>>
    /\ nreq' = nreq + 1
    /\ deadline_expired' = FALSE
    /\ UNCHANGED << max_redirects_, poolVars, close_called >>
    /\ UNCHANGED jarVars
    /\ UNCHANGED streamVars
    /\ UNCHANGED pipeVars
    /\ UNCHANGED matchVars
    /\ UNCHANGED libVars

\* The session's next request, made when the one before has completed (its
\* result stays with the caller).
NextRequest(m, url, o) ==
    /\ pc = "done"
    /\ nreq < SequentialRequests
    /\ pc' = "acquire"
    /\ method' = m
    /\ current_url' = url
    /\ opts' = o
    /\ redirects' = 0
    /\ resp' = EmptyResponse
    /\ hop' = NoHop
    /\ prev_hop' = NoHop
    /\ received' = <<>>
    /\ nreq' = nreq + 1
    /\ deadline_expired' = FALSE
    /\ UNCHANGED << max_redirects_, poolVars, result, close_called >>
    /\ UNCHANGED jarVars
    /\ UNCHANGED streamVars
    /\ UNCHANGED pipeVars
    /\ UNCHANGED matchVars
    /\ UNCHANGED libVars

\* The timeout of the request in flight (opts.timeout, else timeout_) passes.
\* Nothing in do_request reads either, and no timer is armed.
DeadlineExpires ==
    /\ pc \in {"acquire", "send", "read", "loop"}
    /\ ~deadline_expired
    /\ deadline_expired' = TRUE
    /\ UNCHANGED << max_redirects_, poolVars, requestVars, jarVars,
                    nreq, close_called >>
    /\ UNCHANGED streamVars
    /\ UNCHANGED pipeVars
    /\ UNCHANGED matchVars
    /\ UNCHANGED libVars

\* auto conn = co_await acquire_connection(current_url);
DoAcquire ==
    /\ pc = "acquire"
    /\ acquire_connection(0, current_url)
    /\ pc' = "send"
    /\ UNCHANGED << max_redirects_, method, current_url, opts, redirects,
                    resp, result, hop, prev_hop, received >>
    /\ UNCHANGED jarVars
    /\ UNCHANGED sessionVars
    /\ UNCHANGED streamVars
    /\ UNCHANGED pipeVars
    /\ UNCHANGED matchVars
    /\ UNCHANGED libVars

\* co_await send_request(conn, build_request(method, current_url, opts));
DoSend ==
    /\ pc = "send"
    /\ hop' = build_request(method, current_url, opts) @@
               [conn_key |-> connections[held[0]].key, status |-> 0]
    /\ prev_hop' = hop
    /\ pc' = "read"
    /\ UNCHANGED << max_redirects_, poolVars, method, current_url, opts,
                    redirects, resp, result, received >>
    /\ UNCHANGED jarVars
    /\ UNCHANGED sessionVars
    /\ UNCHANGED streamVars
    /\ UNCHANGED pipeVars
    /\ UNCHANGED matchVars
    /\ UNCHANGED libVars

\* co_await read_response(conn, resp): the server answers with a status, a
\* Location when the status is a redirect, and keeps the connection open or
\* signals Connection: close, and may set a cookie.
DoRead(status, location, conn_close, set_cookie) ==
    /\ pc = "read"
    /\ is_redirect(status) => CountRedirects(received) < MaxChain
    /\ resp' = [resp EXCEPT !.status = status, !.location = location,
                            !.set_cookie = set_cookie,
                            !.connection_close = conn_close]
    /\ cookies_' = update_cookie_jar(cookies_, status, set_cookie, current_url)
    /\ Len(cookies_') <= MaxCookies
    /\ jar_op' = "none"
    /\ now' = now
    /\ received' = Append(received, status)
    /\ hop' = [hop EXCEPT !.status = status]
    /\ connections' = [connections EXCEPT ![held[0]].known_good = ~conn_close]
    /\ pc' = "loop"
    /\ UNCHANGED << max_redirects_, pools_, held, last_release, method, current_url, opts,
                    redirects, result, prev_hop >>
    /\ UNCHANGED sessionVars
    /\ UNCHANGED streamVars
    /\ UNCHANGED pipeVars
    /\ UNCHANGED matchVars
    /\ UNCHANGED libVars

\* The loop is left: resp.url = current_url; co_return {{}, std::move(resp)};
\* conn, declared in the loop's body, leaves its scope.
LoopBreak ==
    /\ pc = "loop"
    /\ should_break(resp.status, redirects, max_redirects_)
    /\ result' = [ec |-> "success", resp |-> [resp EXCEPT !.url = current_url]]
    /\ resp' = EmptyResponse
    /\ destroy_connection(0)
    /\ pc' = "done"
    /\ UNCHANGED << max_redirects_, method, current_url, opts, redirects,
                    hop, prev_hop, received >>
    /\ UNCHANGED jarVars
    /\ UNCHANGED sessionVars
    /\ UNCHANGED streamVars
    /\ UNCHANGED pipeVars
    /\ UNCHANGED matchVars
    /\ UNCHANGED libVars

\* Mutant of LoopRedirect: the connection is released under the pool_key of
\* the redirect's target instead of the key of the URL it was acquired for.
LoopRedirect_release_under_new_url ==
    LET new_url == resolve(current_url, resp.location) IN
    /\ pc = "loop"
    /\ ~should_break(resp.status, redirects, max_redirects_)
    /\ IF current_url.scheme # new_url.scheme
       THEN destroy_connection(0)
       ELSE release_connection(0, make_pool_key(new_url))
    /\ method' = method_after_redirect(resp.status, method)
    /\ resp' = history_push_and_reset(resp)
    /\ current_url' = new_url
    /\ redirects' = redirects + 1
    /\ pc' = "acquire"
    /\ UNCHANGED << max_redirects_, opts, result, hop, prev_hop, received >>
    /\ UNCHANGED jarVars
    /\ UNCHANGED sessionVars
    /\ UNCHANGED streamVars
    /\ UNCHANGED pipeVars
    /\ UNCHANGED matchVars
    /\ UNCHANGED libVars

\* The redirect is followed: the connection is discarded on a scheme change
\* and released otherwise, 303 rewrites the method, the response is pushed
\* to the history, and the loop goes on with the resolved URL.
LoopRedirect ==
    LET new_url == resolve(current_url, resp.location) IN
    /\ pc = "loop"
    /\ ~should_break(resp.status, redirects, max_redirects_)
    /\ IF current_url.scheme # new_url.scheme
       THEN destroy_connection(0)
       ELSE release_connection(0, make_pool_key(current_url))
    /\ method' = method_after_redirect(resp.status, method)
    /\ resp' = history_push_and_reset(resp)
    /\ current_url' = new_url
    /\ redirects' = redirects + 1
    /\ pc' = "acquire"
    /\ UNCHANGED << max_redirects_, opts, result, hop, prev_hop, received >>
    /\ UNCHANGED jarVars
    /\ UNCHANGED sessionVars
    /\ UNCHANGED streamVars
    /\ UNCHANGED pipeVars
    /\ UNCHANGED matchVars
    /\ UNCHANGED libVars

Next ==
    \/ \E n \in 0 .. MaxRedirects : set_max_redirects(n)
    \/ \E r \in Requests : StartRequest(r.method, r.url, r.opts)
    \/ DoAcquire
    \/ DoSend
    \/ \E status \in FinalStatuses, conn_close \in BOOLEAN :
          DoRead(status, NoURL, conn_close, "")
    \/ \E status \in RedirectStatuses, location \in URLs \cup {NoURL},
          conn_close \in BOOLEAN :
          DoRead(status, location, conn_close, "")
    \/ LoopBreak
    \/ LoopRedirect

Spec == Init /\ [][Next]_vars

\* ------------------------------------------------- the pool under many users

\* Streamed responses own their connection from get_streamed until their
\* body source is destroyed; several can be alive at once.
StreamHolders == 1 .. MaxInFlight

\* The URLs the streamed requests are made to: two origins.
StreamURLs == { u \in URLs : u.scheme = "http" }

\* get_streamed, step 1: acquire a connection for the URL.
StreamAcquire(h, url) ==
    /\ held[h] = NoConn
    /\ acquire_connection(h, url)
    /\ UNCHANGED << max_redirects_, requestVars >>
    /\ UNCHANGED jarVars
    /\ UNCHANGED sessionVars
    /\ UNCHANGED streamVars
    /\ UNCHANGED pipeVars
    /\ UNCHANGED matchVars
    /\ UNCHANGED libVars

\* An I/O or protocol error on the connection of h, or its peer answering
\* Connection: close: the connection is no longer usable.
StreamError(h) ==
    /\ held[h] # NoConn
    /\ connections[held[h]].known_good
    /\ connections' = [connections EXCEPT ![held[h]].known_good = FALSE]
    /\ last_release' = "none"
    /\ UNCHANGED << max_redirects_, pools_, held, requestVars >>
    /\ UNCHANGED jarVars
    /\ UNCHANGED sessionVars
    /\ UNCHANGED streamVars
    /\ UNCHANGED pipeVars
    /\ UNCHANGED matchVars
    /\ UNCHANGED libVars

\* The caller pulls the body of h until pull returns a count of 0.
StreamDrain(h) ==
    /\ held[h] # NoConn
    /\ ~drained[h]
    /\ drained' = [drained EXCEPT ![h] = TRUE]
    /\ last_release' = "none"
    /\ UNCHANGED << max_redirects_, pools_, connections, held, requestVars >>
    /\ UNCHANGED jarVars
    /\ UNCHANGED sessionVars
    /\ UNCHANGED pipeVars
    /\ UNCHANGED matchVars
    /\ UNCHANGED libVars

\* Mutant of StreamRelease: the connection is released to the pool whether
\* the body was drained or not.
StreamRelease_undrained_pooled(h) ==
    /\ held[h] # NoConn
    /\ release_connection(h, connections[held[h]].key)
    /\ drained' = [drained EXCEPT ![h] = FALSE]
    /\ UNCHANGED << max_redirects_, requestVars >>
    /\ UNCHANGED jarVars
    /\ UNCHANGED sessionVars
    /\ UNCHANGED pipeVars
    /\ UNCHANGED matchVars
    /\ UNCHANGED libVars

\* get_streamed, step 6: the body source is destroyed. A connection whose
\* body was drained is released under the key it was acquired for; one with
\* body bytes unread is closed.
StreamRelease(h) ==
    /\ held[h] # NoConn
    /\ IF drained[h]
       THEN release_connection(h, connections[held[h]].key)
       ELSE /\ held' = [held EXCEPT ![h] = NoConn]
            /\ connections' = [connections EXCEPT ![held[h]] = DeadConn]
            /\ last_release' = "closed_undrained"
            /\ UNCHANGED pools_
    /\ drained' = [drained EXCEPT ![h] = FALSE]
    /\ UNCHANGED << max_redirects_, requestVars >>
    /\ UNCHANGED jarVars
    /\ UNCHANGED sessionVars
    /\ UNCHANGED pipeVars
    /\ UNCHANGED matchVars
    /\ UNCHANGED libVars

\* session::close(): impl_->pools_.clear(); the pooled connections destruct.
close ==
    /\ pools_' = [k \in PoolKeys |-> <<>>]
    /\ connections' = [c \in ConnIds |->
                          IF \E k \in PoolKeys : \E i \in 1 .. Len(pools_[k]) :
                                pools_[k][i] = c
                          THEN DeadConn ELSE connections[c]]
    /\ last_release' = "none"
    /\ close_called' = TRUE
    /\ UNCHANGED << max_redirects_, held, requestVars, nreq, deadline_expired >>
    /\ UNCHANGED jarVars
    /\ UNCHANGED streamVars
    /\ UNCHANGED pipeVars
    /\ UNCHANGED matchVars
    /\ UNCHANGED libVars

NextPool ==
    \/ \E h \in StreamHolders, url \in StreamURLs : StreamAcquire(h, url)
    \/ \E h \in StreamHolders : StreamError(h)
    \/ \E h \in StreamHolders : StreamDrain(h)
    \/ \E h \in StreamHolders : StreamRelease(h)
    \/ close

SpecPool == Init /\ [][NextPool]_vars

\* ------------------------------------------------- the single-hop pipeline

\* The authentication of the plan and the WWW-Authenticate of a response.
PlanAuths == {"none", "digest"}
Challenges == {"", "Digest"}

\* handle_challenge of the plan's auth scheme on a 401: only Digest absorbs
\* a challenge, and reports needs_retry when it parsed one.
handle_challenge(auth, status, www_authenticate) ==
    status = 401 /\ auth = "digest" /\ www_authenticate = "Digest"

\* What the pipeline leaves alone.
nonPipeVars == << max_redirects_, requestVars, jarVars, sessionVars, streamVars >>

\* A request enters the pipeline with its plan.
PipelineStart(url, auth) ==
    /\ plan.pc = "idle"
    /\ plan' = [NoPlan EXCEPT !.pc = "acquire", !.url = url, !.auth = auth]
    /\ UNCHANGED << poolVars, nonPipeVars >>
    /\ UNCHANGED matchVars
    /\ UNCHANGED libVars

\* A connection is acquired for the plan's URL.
PipelineAcquire ==
    /\ plan.pc = "acquire"
    /\ acquire_connection(0, plan.url)
    /\ plan' = [plan EXCEPT !.pc = "send"]
    /\ UNCHANGED nonPipeVars
    /\ UNCHANGED matchVars
    /\ UNCHANGED libVars

\* Step 2, Send: the request is written.
PipelineSend ==
    /\ plan.pc = "send"
    /\ plan' = [plan EXCEPT !.pc = "receive", !.sends = @ + 1]
    /\ last_release' = "none"
    /\ UNCHANGED << pools_, connections, held, nonPipeVars >>
    /\ UNCHANGED matchVars
    /\ UNCHANGED libVars

\* Mutant of PipelineWriteFails: every write failure is retried.
PipelineWriteFails_retry_always ==
    /\ plan.pc = "send"
    /\ destroy_connection(0)
    /\ plan' = [plan EXCEPT !.pc = "acquire", !.stale_retried = TRUE,
                            !.sends = @ + 1]
    /\ UNCHANGED nonPipeVars
    /\ UNCHANGED matchVars
    /\ UNCHANGED libVars

\* Step 2, Send: the write fails before any byte of the response is read.
\* The connection is discarded; the first time in the hop the pipeline
\* reacquires and sends again, the second time the caller gets the error.
PipelineWriteFails ==
    /\ plan.pc = "send"
    /\ destroy_connection(0)
    /\ plan' = IF plan.stale_retried
               THEN [plan EXCEPT !.pc = "done", !.ec = "connection_closed",
                                 !.sends = @ + 1]
               ELSE [plan EXCEPT !.pc = "acquire", !.stale_retried = TRUE,
                                 !.sends = @ + 1]
    /\ UNCHANGED nonPipeVars
    /\ UNCHANGED matchVars
    /\ UNCHANGED libVars

\* Steps 3 and 5: the connection fails after bytes of the response were
\* read. The hop is over: the connection is closed and the caller gets the
\* error.
PipelineReadFails ==
    /\ plan.pc = "receive"
    /\ destroy_connection(0)
    /\ plan' = [plan EXCEPT !.pc = "done", !.ec = "connection_closed"]
    /\ UNCHANGED nonPipeVars
    /\ UNCHANGED matchVars
    /\ UNCHANGED libVars

\* Steps 3 to 5: the response is read.
PipelineReceive(status, www_authenticate) ==
    /\ plan.pc = "receive"
    /\ plan' = [plan EXCEPT !.pc = "hook", !.status = status,
                            !.www_authenticate = www_authenticate]
    /\ last_release' = "none"
    /\ UNCHANGED << pools_, connections, held, nonPipeVars >>
    /\ UNCHANGED matchVars
    /\ UNCHANGED libVars

\* Mutant of AuthRetryHook: every 401 with an absorbed challenge is retried.
AuthRetryHook_unbounded ==
    /\ plan.pc = "hook"
    /\ IF handle_challenge(plan.auth, plan.status, plan.www_authenticate)
       THEN /\ plan' = [plan EXCEPT !.pc = "send", !.auth_retried = TRUE]
            /\ last_release' = "none"
            /\ UNCHANGED << pools_, connections, held >>
       ELSE /\ plan' = [plan EXCEPT !.pc = "done", !.ec = "success"]
            /\ release_connection(0, make_pool_key(plan.url))
    /\ UNCHANGED nonPipeVars
    /\ UNCHANGED matchVars
    /\ UNCHANGED libVars

\* Step 6, Auth retry hook: a 401 whose challenge the auth scheme absorbed
\* restarts the pipeline on the same connection, once per request; any other
\* response is the result, and the connection is released.
AuthRetryHook ==
    /\ plan.pc = "hook"
    /\ IF /\ handle_challenge(plan.auth, plan.status, plan.www_authenticate)
          /\ ~plan.auth_retried
       THEN /\ plan' = [plan EXCEPT !.pc = "send", !.auth_retried = TRUE]
            /\ last_release' = "none"
            /\ UNCHANGED << pools_, connections, held >>
       ELSE /\ plan' = [plan EXCEPT !.pc = "done", !.ec = "success"]
            /\ release_connection(0, make_pool_key(plan.url))
    /\ UNCHANGED nonPipeVars
    /\ UNCHANGED matchVars
    /\ UNCHANGED libVars

\* The caller has its result; the session is ready for the next request.
PipelineReturn ==
    /\ plan.pc = "done"
    /\ plan' = NoPlan
    /\ last_release' = "none"
    /\ UNCHANGED << pools_, connections, held, nonPipeVars >>
    /\ UNCHANGED matchVars
    /\ UNCHANGED libVars

NextPipeline ==
    \/ \E url \in URLs, auth \in PlanAuths : PipelineStart(url, auth)
    \/ PipelineAcquire
    \/ PipelineSend
    \/ PipelineWriteFails
    \/ PipelineReadFails
    \/ \E status \in {200, 401}, www_authenticate \in Challenges :
          PipelineReceive(status, www_authenticate)
    \/ AuthRetryHook
    \/ PipelineReturn

SpecPipeline == Init /\ [][NextPipeline]_vars

\* --------------------------------------------- sequential requests, close

\* The URLs of the session's requests and redirects, the final statuses of
\* their responses and the Set-Cookie headers ("": none) they carry.
SessionURLs == { u \in URLs : u.scheme = "http" }
SessionFinalStatuses == {200, 404}
SessionSetCookies == {"", "sid=1", "sid=2"}

\* Two requests in sequence, their responses setting cookies; a request is
\* redirected at most once.
NextSession ==
    \/ \E url \in SessionURLs : StartRequest("GET", url, NoOpts)
    \/ \E url \in SessionURLs : NextRequest("GET", url, NoOpts)
    \/ DoAcquire
    \/ DoSend
    \/ \E status \in SessionFinalStatuses, conn_close \in BOOLEAN,
          set_cookie \in SessionSetCookies :
          DoRead(status, NoURL, conn_close, set_cookie)
    \/ \E location \in SessionURLs, conn_close \in BOOLEAN,
          set_cookie \in SessionSetCookies :
          received = <<>> /\ DoRead(302, location, conn_close, set_cookie)
    \/ LoopBreak
    \/ LoopRedirect

SpecSession == Init /\ [][NextSession]_vars

\* Requests in sequence on a session that is closed at some point.
NextClose ==
    \/ \E url \in SessionURLs : StartRequest("GET", url, NoOpts)
    \/ \E url \in SessionURLs : NextRequest("GET", url, NoOpts)
    \/ DoAcquire
    \/ DoSend
    \/ \E conn_close \in BOOLEAN : DoRead(200, NoURL, conn_close, "")
    \/ \E location \in SessionURLs, conn_close \in BOOLEAN :
          DoRead(302, location, conn_close, "")
    \/ LoopBreak
    \/ LoopRedirect
    \/ close

SpecClose == Init /\ [][NextClose]_vars

\* One request whose timeout passes while it is in flight.
NextTimeout ==
    \/ \E url \in SessionURLs : StartRequest("GET", url, NoOpts)
    \/ DoAcquire
    \/ DoSend
    \/ \E conn_close \in BOOLEAN : DoRead(200, NoURL, conn_close, "")
    \/ \E location \in SessionURLs, conn_close \in BOOLEAN :
          DoRead(302, location, conn_close, "")
    \/ LoopBreak
    \/ LoopRedirect
    \/ DeadlineExpires

SpecTimeout == Init /\ [][NextTimeout]_vars

\* ------------------------------------------------- the jar's operations

\* The request and pool state, which the jar's operations leave alone.
nonJarVars == << max_redirects_, poolVars, requestVars, sessionVars, streamVars,
                pipeVars >>

\* jar.set(c)
set(c) ==
    /\ Len(jar_set(cookies_, c)) <= MaxCookies
    /\ cookies_' = jar_set(cookies_, c)
    /\ jar_op' = LET it == find_cookie(cookies_, c.name, c.domain, c.path)
                 IN  IF it = 0 THEN "added"
                     ELSE IF it < Len(cookies_) THEN "replaced_earlier"
                     ELSE "replaced"
    /\ UNCHANGED << now, nonJarVars >>
    /\ lookup' = NoLookup
    /\ UNCHANGED libVars

\* jar.set_from_header(set_cookie_header, request_url)
set_from_header(set_cookie_header, request_url) ==
    /\ Len(jar_set_from_header(cookies_, set_cookie_header, request_url))
          <= MaxCookies
    /\ cookies_' = jar_set_from_header(cookies_, set_cookie_header, request_url)
    /\ jar_op' = IF jar_set_from_header(<<>>, set_cookie_header, request_url) = <<>>
                 THEN "ignored"
                 ELSE IF Len(cookies_') = Len(cookies_) THEN "header_replaced"
                 ELSE "header_added"
    /\ UNCHANGED << now, nonJarVars >>
    /\ lookup' = NoLookup
    /\ UNCHANGED libVars

\* jar.remove(name, domain, path)
remove(name, domain, path) ==
    /\ cookies_' = jar_remove(cookies_, name, domain, path)
    /\ jar_op' = "none"
    /\ UNCHANGED << now, nonJarVars >>
    /\ lookup' = NoLookup
    /\ UNCHANGED libVars

\* jar.remove_expired()
remove_expired ==
    /\ cookies_' = jar_remove_expired(cookies_)
    /\ jar_op' = IF Len(cookies_') < Len(cookies_) THEN "expired_removed" ELSE "none"
    /\ UNCHANGED << now, nonJarVars >>
    /\ lookup' = NoLookup
    /\ UNCHANGED libVars

\* jar.clear()
clear ==
    /\ cookies_' = <<>>
    /\ jar_op' = "none"
    /\ UNCHANGED << now, nonJarVars >>
    /\ lookup' = NoLookup
    /\ UNCHANGED libVars

\* The system clock advances.
Tick ==
    /\ now < MaxTime
    /\ now' = now + 1
    /\ jar_op' = "none"
    /\ UNCHANGED << cookies_, nonJarVars >>
    /\ lookup' = NoLookup
    /\ UNCHANGED libVars

NextJar ==
    \/ \E c \in JarCookies : set(c)
    \/ \E h \in SetCookieHeaders, url \in JarURLs : set_from_header(h, url)
    \/ \E c \in JarCookies : remove(c.name, c.domain, c.path)
    \/ remove_expired
    \/ clear
    \/ Tick

SpecJar == Init /\ [][NextJar]_vars

\* ------------------------------------------------------ the jar's lookups

\* A URL with a path.
MatchURL(s, h, p) == [scheme |-> s, host |-> h, port |-> 0, path |-> p]

\* The cookies the looked-up jar is given: of one domain, under two names
\* and two paths, session cookies and cookies that expire, secure or not.
MatchCookies ==
    [ name    : {"sid", "t"},
      value   : {"1"},
      domain  : {"example.com"},
      path    : {"/", "/api"},
      expires : {NoExpiry, 1},
      secure  : BOOLEAN ]

\* The URLs the jar is asked about. Their hosts: the cookies' domain, a
\* subdomain of it and two hosts that only contain it. Their paths: the
\* cookies' paths, a path below one of them and a path that only begins
\* like it. The cookies' domain is asked about over both schemes and with
\* every path, the other hosts over http with the path /api.
MatchHosts ==
    {"example.com", "api.example.com", "notexample.com", "example.com.evil.com"}
MatchPaths == {"/", "/api", "/api/x", "/apix"}
MatchURLs ==
    { MatchURL(s, "example.com", p) : s \in {"http", "https"}, p \in MatchPaths }
        \cup { MatchURL("http", h, "/api") : h \in MatchHosts }

\* jar.get_cookies(url) and jar.get_cookie_header(url), one after the other.
GetCookies(url) ==
    /\ lookup' = [url     |-> url,
                  cookies |-> get_cookies(cookies_, url),
                  header  |-> get_cookie_header(cookies_, url)]
    /\ jar_op' = "none"
    /\ UNCHANGED << cookies_, now, nonJarVars >>
    /\ UNCHANGED libVars

NextMatch ==
    \/ \E c \in MatchCookies : set(c)
    \/ \E url \in MatchURLs : GetCookies(url)
    \/ remove_expired
    \/ clear
    \/ Tick

SpecMatch == Init /\ [][NextMatch]_vars

\* ----------------------------------------------------------- auth objects

\* http_basic_auth::http_basic_auth(username, password)
http_basic_auth(username, password) ==
    [username_ |-> username, password_ |-> password, encoded_ |-> ""]

\* http_basic_auth::apply(req): the Authorization header of req afterwards.
basic_apply(auth, authorization) == "Basic <encoded>"

\* http_digest_auth::http_digest_auth(username, password)
http_digest_auth(username, password) ==
    [NoDigest EXCEPT !.username_ = username, !.password_ = password]

\* http_digest_auth::apply(req): the Authorization header of req afterwards.
digest_apply(auth, authorization) ==
    IF auth.nonce_ = "" THEN authorization ELSE "Digest <computed>"

\* http_digest_auth::process_challenge(www_authenticate): the object
\* afterwards.
process_challenge(auth, www_authenticate) == auth

\* Mutant of http_digest_auth::clone: a default-constructed object.
clone_default(auth) == http_digest_auth("", "")

\* http_digest_auth::clone(): the object it returns.
clone(auth) ==
    [http_digest_auth(auth.username_, auth.password_) EXCEPT
        !.realm_     = auth.realm_,
        !.nonce_     = auth.nonce_,
        !.opaque_    = auth.opaque_,
        !.qop_       = auth.qop_,
        !.algorithm_ = auth.algorithm_,
        !.nc_        = auth.nc_]

\* The WWW-Authenticate header values given to process_challenge, and the
\* Authorization header ("": none) of a request before apply.
WWWAuthenticates ==
    {"Digest realm=\"test\", nonce=\"abc123\", qop=\"auth\"", "Basic realm=\"test\""}
PriorAuthorizations == {"", "Bearer t"}

\* s contains sub.
contains(s, sub) ==
    \E i \in 1 .. (Len(s) - Len(sub) + 1) : SubSeq(s, i, i + Len(sub) - 1) = sub

\* A Digest challenge with a realm and a nonce.
is_digest_challenge(www_authenticate) ==
    /\ starts_with(www_authenticate, "Digest ")
    /\ contains(www_authenticate, "realm=")
    /\ contains(www_authenticate, "nonce=")

\* An http_basic_auth is constructed.
ConstructBasic(username, password) ==
    /\ basic_' = http_basic_auth(username, password)
    /\ auth_req' = NoApply
    /\ UNCHANGED << basic_sent, digest_, digest_clone, challenged, responseVars,
                    matchVars >>
    /\ UNCHANGED << max_redirects_, poolVars, requestVars, jarVars, sessionVars,
                    streamVars, pipeVars, cliVars >>

\* auth.apply(req) of the http_basic_auth, on a request with or without an
\* Authorization header.
BasicApply(authorization) ==
    /\ basic_ # NoBasic
    /\ auth_req' = [by     |-> "basic",
                    before |-> authorization,
                    after  |-> basic_apply(basic_, authorization)]
    /\ basic_sent' = [basic_sent EXCEPT ![<< basic_.username_, basic_.password_ >>] =
                         basic_apply(basic_, authorization)]
    /\ UNCHANGED << basic_, digest_, digest_clone, challenged, responseVars,
                    matchVars >>
    /\ UNCHANGED << max_redirects_, poolVars, requestVars, jarVars, sessionVars,
                    streamVars, pipeVars, cliVars >>

\* An http_digest_auth is constructed.
ConstructDigest(username, password) ==
    /\ digest_' = http_digest_auth(username, password)
    /\ challenged' = FALSE
    /\ auth_req' = NoApply
    /\ UNCHANGED << basic_, basic_sent, digest_clone, responseVars, matchVars >>
    /\ UNCHANGED << max_redirects_, poolVars, requestVars, jarVars, sessionVars,
                    streamVars, pipeVars, cliVars >>

\* auth.process_challenge(www_authenticate) of the http_digest_auth.
ProcessChallenge(www_authenticate) ==
    /\ digest_ # NoDigest
    /\ digest_' = process_challenge(digest_, www_authenticate)
    /\ challenged' = (challenged \/ is_digest_challenge(www_authenticate))
    /\ auth_req' = NoApply
    /\ UNCHANGED << basic_, basic_sent, digest_clone, responseVars, matchVars >>
    /\ UNCHANGED << max_redirects_, poolVars, requestVars, jarVars, sessionVars,
                    streamVars, pipeVars, cliVars >>

\* auth.apply(req) of the http_digest_auth.
DigestApply(authorization) ==
    /\ digest_ # NoDigest
    /\ auth_req' = [by     |-> "digest",
                    before |-> authorization,
                    after  |-> digest_apply(digest_, authorization)]
    /\ UNCHANGED << basic_, basic_sent, digest_, digest_clone, challenged,
                    responseVars, matchVars >>
    /\ UNCHANGED << max_redirects_, poolVars, requestVars, jarVars, sessionVars,
                    streamVars, pipeVars, cliVars >>

\* auth.clone() of the http_digest_auth.
Clone ==
    /\ digest_ # NoDigest
    /\ digest_clone' = clone(digest_)
    /\ auth_req' = [NoApply EXCEPT !.by = "clone"]
    /\ UNCHANGED << basic_, basic_sent, digest_, challenged, responseVars,
                    matchVars >>
    /\ UNCHANGED << max_redirects_, poolVars, requestVars, jarVars, sessionVars,
                    streamVars, pipeVars, cliVars >>

\* process_challenge(www_authenticate) of the clone.
CloneProcessChallenge(www_authenticate) ==
    /\ digest_clone # NoDigest
    /\ digest_clone' = process_challenge(digest_clone, www_authenticate)
    /\ auth_req' = NoApply
    /\ UNCHANGED << basic_, basic_sent, digest_, challenged, responseVars,
                    matchVars >>
    /\ UNCHANGED << max_redirects_, poolVars, requestVars, jarVars, sessionVars,
                    streamVars, pipeVars, cliVars >>

\* apply(req) of the clone.
CloneApply(authorization) ==
    /\ digest_clone # NoDigest
    /\ auth_req' = [by     |-> "digest_clone",
                    before |-> authorization,
                    after  |-> digest_apply(digest_clone, authorization)]
    /\ UNCHANGED << basic_, basic_sent, digest_, digest_clone, challenged,
                    responseVars, matchVars >>
    /\ UNCHANGED << max_redirects_, poolVars, requestVars, jarVars, sessionVars,
                    streamVars, pipeVars, cliVars >>

NextAuth ==
    \/ \E cr \in Credentials : ConstructBasic(cr[1], cr[2])
    \/ \E authorization \in PriorAuthorizations : BasicApply(authorization)
    \/ \E cr \in Credentials : ConstructDigest(cr[1], cr[2])
    \/ \E www_authenticate \in WWWAuthenticates : ProcessChallenge(www_authenticate)
    \/ \E authorization \in PriorAuthorizations : DigestApply(authorization)
    \/ Clone
    \/ \E www_authenticate \in WWWAuthenticates :
          CloneProcessChallenge(www_authenticate)
    \/ \E authorization \in PriorAuthorizations : CloneApply(authorization)

SpecAuth == Init /\ [][NextAuth]_vars

\* --------------------------------------------------------------- responses

\* std::to_string of an unsigned short.
RECURSIVE to_string(_)
to_string(n) ==
    IF n < 10 THEN SubSeq("0123456789", n + 1, n + 1)
    ELSE to_string(n \div 10) \o SubSeq("0123456789", (n % 10) + 1, (n % 10) + 1)

\* urls::url::buffer(): the URL as a string.
buffer(url) == url.scheme \o "://" \o url.host \o url.path

\* response::ok on a status code
ok(status) == status < 400

\* http_error::http_error(status_code, reason, url)
http_error(status_code, reason, url) ==
    [ status_code_ |-> status_code,
      reason_      |-> reason,
      url_         |-> url,
      what_        |-> to_string(status_code) \o " " \o reason \o ": " \o url ]

\* Mutant of response::raise_for_status: a 400 is not an error.
raise_for_status_above_400(status, reason, url) ==
    IF status > 400 THEN http_error(status, reason, buffer(url)) ELSE NoError

\* response::raise_for_status: the http_error it throws, NoError when it
\* returns.
raise_for_status(status, reason, url) ==
    IF status >= 400 THEN http_error(status, reason, buffer(url)) ELSE NoError

\* The status codes, reason phrases and final URLs of the responses checked.
ResponseStatuses == {100, 200, 204, 301, 399, 400, 401, 404, 500, 503}
ResponseReasons == {"", "OK", "Not Found"}
ResponseURLs ==
    { MatchURL(s, "example.com", p) : s \in {"http", "https"}, p \in {"/", "/api"} }

\* r.ok() and r.raise_for_status() on a response with this status, reason
\* and url.
RaiseForStatus(status, reason, url) ==
    /\ checked' = [status |-> status,
                   reason |-> reason,
                   url    |-> url,
                   ok     |-> ok(status),
                   thrown |-> raise_for_status(status, reason, url)]
    /\ UNCHANGED << authVars, matchVars >>
    /\ UNCHANGED << max_redirects_, poolVars, requestVars, jarVars, sessionVars,
                    streamVars, pipeVars, cliVars >>

NextResponse ==
    \E status \in ResponseStatuses, reason \in ResponseReasons,
       url \in ResponseURLs : RaiseForStatus(status, reason, url)

SpecResponse == Init /\ [][NextResponse]_vars

\* -------------------------------------------------------------- parse_args

\* Most arguments after the program name in the model's command lines.
MaxArgs == 3

\* The arguments of the model's command lines: clusters of short options,
\* long options with and without "=", unknown options, the terminator and a
\* plain word.  Of the options of parse_args the model keeps the flags -v,
\* -s, -L (--verbose, --silent, --location) and the value-taking -d and -o
\* (--data, --output).
Tokens ==
    {"-vsL", "-vdk=v", "-vd", "-dv", "-z", "--bogus", "--data", "--data=k=v",
     "--output", "--output=k=v", "--", "k=v"}

\* argv[1 .. argc - 1]: argv[0], the program name, is not modelled.
Argvs == UNION { [1 .. n -> Tokens] : n \in 0 .. MaxArgs }

\* make_error(msg)
make_error(msg) == [ec |-> 1, error_message |-> msg, args |-> default_args]

\* make_missing_value_error(opt)
make_missing_value_error(opt) ==
    [ ec            |-> 2,
      error_message |-> "option requires a value: " \o opt,
      args          |-> default_args ]

\* The parser's state: the loop variable i of parse_args, its result (args is
\* result.args), what a handler returned, and how each argument was read.
parse_start(argv) ==
    [ i      |-> 1,
      result |-> default_result,
      ok     |-> TRUE,
      uses   |-> [k \in 1 .. Len(argv) |-> <<>>] ]

\* Argument k was read as a role: an option, a value, a URL, the terminator.
use(st, k, role) == [st EXCEPT !.uses[k] = Append(@, role)]

\* Mutant of fail: the error is recorded and the handler returns true, so the
\* loop of parse_args goes on.
fail_and_continue(st, error_result) == [st EXCEPT !.result = error_result]

\* Mutant of fail: the error code and message are set in the result, whose
\* args stay as they were parsed.
fail_keeping_args(st, error_result) ==
    [st EXCEPT !.result.ec = error_result.ec,
               !.result.error_message = error_result.error_message,
               !.ok = FALSE]

\* result = <an error result>; return false;
fail(st, error_result) == [st EXCEPT !.result = error_result, !.ok = FALSE]

\* Mutant of get_next_value: the next argument is returned and i stays, so
\* the loop of parse_args reads that argument again.
get_next_value_no_advance(st, argv) ==
    IF st.i + 1 < Len(argv) + 1
    THEN [ st    |-> use(st, st.i + 1, "value"),
           value |-> << argv[st.i + 1] >> ]
    ELSE [ st |-> st, value |-> <<>> ]

\* get_next_value(i, argc, argv): the state and the value, <<>> for nullptr.
get_next_value(st, argv) ==
    IF st.i + 1 < Len(argv) + 1
    THEN [ st    |-> use([st EXCEPT !.i = st.i + 1], st.i + 1, "value"),
           value |-> << argv[st.i + 1] >> ]
    ELSE [ st |-> st, value |-> <<>> ]

\* Mutant of split_long_option: the value is cut at the last "=".
split_long_option_last(arg) ==
    LET a == SubSeq(arg, 3, Len(arg))
        eqs == { p \in 1 .. Len(a) : SubSeq(a, p, p) = "=" }
    IN  IF eqs = {} THEN [name |-> a, value |-> <<>>]
        ELSE LET pos == CHOOSE p \in eqs : \A q \in eqs : q <= p
             IN  [ name  |-> SubSeq(a, 1, pos - 1),
                   value |-> << SubSeq(a, pos + 1, Len(a)) >> ]

\* split_long_option(arg): the name and the value, <<>> for nullptr.
split_long_option(arg) ==
    LET a == SubSeq(arg, 3, Len(arg))
        pos == find(a, "=")
    IN  IF pos = 0 THEN [name |-> a, value |-> <<>>]
        ELSE [ name  |-> SubSeq(a, 1, pos - 1),
               value |-> << SubSeq(a, pos + 1, Len(a)) >> ]

\* handle_long_option(name, value, args, i, argc, argv, result)
handle_long_option(name, value, st, argv) ==
    IF name = "verbose" THEN [st EXCEPT !.result.args.verbose = TRUE]
    ELSE IF name = "silent" THEN [st EXCEPT !.result.args.silent = TRUE]
    ELSE IF name = "location"
    THEN [st EXCEPT !.result.args.follow_redirects = TRUE]
    ELSE LET require_value ==
                 IF value # <<>> THEN [st |-> st, value |-> value]
                 ELSE get_next_value(st, argv)
         IN  IF name = "data"
             THEN IF require_value.value = <<>>
                  THEN fail(st, make_missing_value_error("--data"))
                  ELSE [require_value.st EXCEPT
                           !.result.args.data = Append(@, require_value.value[1])]
             ELSE IF name = "output"
             THEN IF require_value.value = <<>>
                  THEN fail(st, make_missing_value_error("--output"))
                  ELSE [require_value.st EXCEPT
                           !.result.args.output = require_value.value]
             ELSE fail(st, make_error("unknown option: --" \o name))

\* Mutant of short_option_takes_value: no option is known to take a value.
short_option_takes_value_never(c) == FALSE

\* short_option_takes_value(c)
short_option_takes_value(c) == c \in {"d", "o"}

\* handle_short_option(c, attached_value, args, i, argc, argv, result)
handle_short_option(c, attached_value, st, argv) ==
    IF c = "v" THEN [st EXCEPT !.result.args.verbose = TRUE]
    ELSE IF c = "s" THEN [st EXCEPT !.result.args.silent = TRUE]
    ELSE IF c = "L" THEN [st EXCEPT !.result.args.follow_redirects = TRUE]
    ELSE LET require_value ==
                 IF attached_value # <<>> /\ attached_value[1] # ""
                 THEN [st |-> st, value |-> attached_value]
                 ELSE get_next_value(st, argv)
         IN  IF c = "d"
             THEN IF require_value.value = <<>>
                  THEN fail(st, make_missing_value_error("-d"))
                  ELSE [require_value.st EXCEPT
                           !.result.args.data = Append(@, require_value.value[1])]
             ELSE IF c = "o"
             THEN IF require_value.value = <<>>
                  THEN fail(st, make_missing_value_error("-o"))
                  ELSE [require_value.st EXCEPT
                           !.result.args.output = require_value.value]
             ELSE fail(st, make_error("unknown option: -" \o c))

\* The loop of handle_short_options from position j of opts on.
RECURSIVE short_options_from(_, _, _, _)
short_options_from(short_opts, j, st, argv) ==
    IF j > Len(short_opts) THEN st
    ELSE LET c == SubSeq(short_opts, j, j)
         IN  IF short_option_takes_value(c) /\ j + 1 < Len(short_opts) + 1
             THEN handle_short_option(c, << SubSeq(short_opts, j + 1, Len(short_opts)) >>,
                                      st, argv)
             ELSE LET after == handle_short_option(c, <<>>, st, argv)
                  IN  IF ~after.ok THEN after
                      ELSE short_options_from(short_opts, j + 1, after, argv)

\* handle_short_options(opts, args, i, argc, argv, result)
handle_short_options(short_opts, st, argv) == short_options_from(short_opts, 1, st, argv)

\* Mutant of push_urls_from: an argument that begins with "-" is skipped.
RECURSIVE push_urls_from_no_dash(_, _, _)
push_urls_from_no_dash(argv, k, st) ==
    IF k > Len(argv) THEN st
    ELSE IF SubSeq(argv[k], 1, 1) = "-"
    THEN push_urls_from_no_dash(argv, k + 1, st)
    ELSE push_urls_from_no_dash(argv, k + 1,
            use([st EXCEPT !.result.args.urls = Append(@, argv[k])], k, "url"))

\* The inner loop of parse_args after "--": the arguments from k on are
\* pushed to urls.
RECURSIVE push_urls_from(_, _, _)
push_urls_from(argv, k, st) ==
    IF k > Len(argv) THEN st
    ELSE push_urls_from(argv, k + 1,
            use([st EXCEPT !.result.args.urls = Append(@, argv[k])], k, "url"))

\* The loop of parse_args from i = st.i on.
RECURSIVE parse_from(_, _)
parse_from(argv, st) ==
    IF ~(st.i < Len(argv) + 1) THEN st
    ELSE LET arg == argv[st.i]
         IN  IF arg = "--"
             THEN push_urls_from(argv, st.i + 1, use(st, st.i, "terminator"))
             ELSE IF Len(arg) > 2 /\ SubSeq(arg, 1, 2) = "--"
             THEN LET nv == split_long_option(arg)
                      after == handle_long_option(nv.name, nv.value,
                                                  use(st, st.i, "option"), argv)
                  IN  IF ~after.ok THEN after
                      ELSE parse_from(argv, [after EXCEPT !.i = after.i + 1])
             ELSE IF Len(arg) > 1 /\ SubSeq(arg, 1, 1) = "-"
             THEN LET after == handle_short_options(SubSeq(arg, 2, Len(arg)),
                                                    use(st, st.i, "option"), argv)
                  IN  IF ~after.ok THEN after
                      ELSE parse_from(argv, [after EXCEPT !.i = after.i + 1])
             ELSE parse_from(argv,
                     use([st EXCEPT !.result.args.urls = Append(@, arg),
                                    !.i = st.i + 1], st.i, "url"))

\* parse_args(argc, argv): the parser's state when it returns.
parse_args(argv) == parse_from(argv, parse_start(argv))

\* main calls parse_args, once, with the command line of the process.
Parse(argv) ==
    /\ ~cli.called
    /\ cli' = [ argv   |-> argv,
                result |-> parse_args(argv).result,
                uses   |-> parse_args(argv).uses,
                called |-> TRUE ]
    /\ UNCHANGED << authVars, responseVars, matchVars >>
    /\ UNCHANGED << max_redirects_, poolVars, requestVars, jarVars, sessionVars,
                    streamVars, pipeVars >>

NextParse == \E argv \in Argvs : Parse(argv)

SpecParse == Init /\ [][NextParse]_vars

\* ------------------------------------------------------ redirect properties

\* A hop was sent after a followed redirect: prev_hop is the redirected hop,
\* with the status it was answered with, and hop the one that followed it.
AfterRedirect == prev_hop # NoHop /\ hop # NoHop

\* The origin (host, port, is_tls) of a URL is its pool_key.
origin(url) == make_pool_key(url)

\* C1: with redirects allowed and max_redirects = N, a request answered with
\* more than N consecutive redirects completes with error too_many_redirects
\* and not with a response.
C1_TooManyRedirectsError ==
    ( /\ pc = "done"
      /\ opts.allow_redirects # "false"
      /\ CountRedirects(received) > max_redirects_ )
    => result.ec = "too_many_redirects"

C3_HistoryHoldsFollowedRedirects ==
    ( /\ pc = "done"
      /\ ~is_redirect(result.resp.status) )
    => result.resp.history = Front(received)

\* C4: after a followed redirect the next hop is a GET with no body and no
\* Content-Type exactly when the status is 303, or is 301 or 302 and the
\* redirected method was POST.
C4_RewriteToGet ==
    AfterRedirect =>
        LET rewritten ==
                \/ prev_hop.status = 303
                \/ prev_hop.status \in {301, 302} /\ prev_hop.method = "POST"
            bare_get(h) == h.method = "GET" /\ ~h.has_body /\ ~h.content_type
        IN  /\ rewritten => bare_get(hop)
            /\ (~rewritten /\ bare_get(hop)) => bare_get(prev_hop)

\* C5: after a followed 307 or 308 (any method), or a 301 or 302 of a method
\* other than POST, the next hop has the method and the body of the hop that
\* was redirected.
C5_MethodAndBodyPreserved ==
    ( /\ AfterRedirect
      /\ \/ prev_hop.status \in {307, 308}
         \/ prev_hop.status \in {301, 302} /\ prev_hop.method # "POST" )
    => ( /\ hop.method = prev_hop.method
         /\ hop.has_body = prev_hop.has_body
         /\ hop.content_type = prev_hop.content_type )

C5_Witness ==
    /\ AfterRedirect
    /\ prev_hop.status = 307
    /\ prev_hop.method = "POST"
    /\ prev_hop.has_body
    /\ hop.method = "POST"
    /\ hop.has_body

\* C6: a hop that follows a redirect to another origin carries no
\* Authorization header, from the request headers or from the auth scheme
\* (request_options has no switch that enables cross-origin auth).
C6_NoAuthorizationCrossOrigin ==
    ( /\ AfterRedirect
      /\ origin(hop.url) # origin(prev_hop.url) )
    => hop.authorization = "none"

\* C7: with allow_redirects = false a request whose first response is a
\* redirect returns that response after one hop: nothing is followed, the
\* history is empty and there is no error, whatever max_redirects is.
C7_RedirectsNotFollowedWhenDisallowed ==
    opts.allow_redirects = "false"
    => ( /\ redirects = 0
         /\ Len(received) <= 1
         /\ pc = "done" =>
               ( /\ result.ec = "success"
                 /\ result.resp.status = received[1]
                 /\ result.resp.history = <<>> ) )

\* C11: every connection acquired for a request is released when the request
\* is done with it, on a redirect hop as on the final response: it is then
\* owned by no request, and it is in the free list of its origin when the
\* exchange was clean (and the list has room), closed otherwise.
C11_ConnectionAlwaysReleased ==
    [][ ( /\ pc = "loop"
          /\ pc' # "loop" )
        => LET c == held[0]
               k == connections[c].key
               clean == connections[c].known_good
               scheme_change ==
                   /\ pc' = "acquire"
                   /\ current_url'.scheme # current_url.scheme
               pooled == \E i \in 1 .. Len(pools_'[k]) : pools_'[k][i] = c
           IN  /\ held'[0] = NoConn
               /\ (clean /\ ~scheme_change /\ Len(pools_[k]) < PoolCap) => pooled
               /\ ~pooled => ~connections'[c].live ]_vars

\* C13: every hop is sent on a connection whose key (host, port, https) is
\* the origin of the hop's URL, and the connection of a hop whose redirect
\* changes the scheme is destroyed before the next hop acquires one.
C13_HopOnConnectionOfItsOrigin ==
    /\ [](hop # NoHop => hop.conn_key = origin(hop.url))
    /\ [][ ( /\ pc = "loop"
             /\ pc' = "acquire"
             /\ current_url'.scheme # current_url.scheme )
           => ( /\ ~connections'[held[0]].live
                /\ pools_' = pools_ ) ]_vars

C13_Witness ==
    /\ AfterRedirect
    /\ hop.url.scheme # prev_hop.url.scheme
    /\ hop.conn_key = origin(hop.url)
    /\ prev_hop.conn_key = origin(prev_hop.url)

\* ---------------------------------------------------------- pool properties

\* The in-flight requests that own connection c.
Owners(c) == { h \in Holders : held[h] = c }

\* The places (origin, position) of the free lists that hold connection c.
FreeSlots(c) ==
    { ki \in PoolKeys \X (1 .. Cardinality(ConnIds)) :
        ki[2] <= Len(pools_[ki[1]]) /\ pools_[ki[1]][ki[2]] = c }

\* C8: each live connection is in exactly one place: owned by exactly one
\* in-flight request, or in exactly one free list (once).
C8_ConnectionInOnePlace ==
    \A c \in ConnIds :
        connections[c].live
        => Cardinality(Owners(c)) + Cardinality(FreeSlots(c)) = 1

C8_Witness ==
    /\ \E h \in Holders : held[h] # NoConn
    /\ Cardinality({ k \in PoolKeys : pools_[k] # <<>> }) >= 2
    /\ last_release = "none"

\* C9: a connection whose known-good flag was cleared (an I/O or protocol
\* error, or Connection: close from the peer) is never put in a free list by
\* release and never handed out by acquire.
C9_UnusableNeverPooled ==
    /\ [](\A c \in ConnIds : FreeSlots(c) # {} => connections[c].known_good)
    /\ [][ \A h \in Holders :
             (held[h] # NoConn /\ held'[h] = NoConn
                /\ ~connections[held[h]].known_good)
             => (~connections'[held[h]].live /\ pools_' = pools_) ]_vars
    /\ [][ \A h \in Holders :
             (held[h] = NoConn /\ held'[h] # NoConn)
             => connections'[held'[h]].known_good ]_vars

C9_Witness ==
    /\ last_release = "closed_unusable"
    /\ \E k \in PoolKeys : pools_[k] # <<>>

\* C10: no free list ever holds more than the per-origin cap, and a clean
\* release that finds its free list at the cap closes the connection.
C10_FreeListWithinCap ==
    /\ [](\A k \in PoolKeys : Len(pools_[k]) <= PoolCap)
    /\ [][ \A h \in Holders :
             (held[h] # NoConn /\ held'[h] = NoConn
                /\ connections[held[h]].known_good
                /\ Len(pools_[connections[held[h]].key]) = PoolCap)
             => (~connections'[held[h]].live /\ pools_' = pools_) ]_vars

C10_Witness ==
    /\ last_release = "closed_full"
    /\ \E k \in PoolKeys : Len(pools_[k]) = PoolCap

\* C19: while a streamed response holds its connection, the connection is in
\* no free list and held by no other request; it is given up only when the
\* body source is destroyed, and a connection given up with its body not
\* drained is closed and put in no free list.
C19_StreamOwnsConnectionUntilDrained ==
    /\ [](\A h \in StreamHolders :
             held[h] # NoConn
             => ( /\ FreeSlots(held[h]) = {}
                  /\ Owners(held[h]) = {h} ))
    /\ [][ \A h \in StreamHolders :
             (held[h] # NoConn /\ held'[h] = NoConn /\ ~drained[h])
             => ( /\ ~connections'[held[h]].live
                  /\ pools_' = pools_ ) ]_vars

\* A response was abandoned undrained while another held a connection and a
\* drained one had been pooled.
C19_Witness ==
    /\ last_release = "closed_undrained"
    /\ \E h \in StreamHolders : held[h] # NoConn /\ drained[h]
    /\ \E k \in PoolKeys : pools_[k] # <<>>

\* ----------------------------------------------------- cookie jar properties

\* The (name, domain, path) of a cookie.
key_of(c) == << c.name, c.domain, c.path >>

\* C20: no two cookies of the jar have the same (name, domain, path); a set
\* of a triple already present leaves the size unchanged, and the jar then
\* holds the new cookie, and no other, for that triple.
C20_UniqueTriple ==
    /\ [](\A i, j \in 1 .. Len(cookies_) :
             key_of(cookies_[i]) = key_of(cookies_[j]) => i = j)
    /\ [][ \A c \in JarCookies :
             ( /\ cookies_' = jar_set(cookies_, c)
               /\ \E i \in 1 .. Len(cookies_) : key_of(cookies_[i]) = key_of(c) )
             => ( /\ Len(cookies_') = Len(cookies_)
                  /\ \A i \in 1 .. Len(cookies_') :
                        key_of(cookies_'[i]) = key_of(c) => cookies_'[i] = c ) ]_vars

C20_Witness ==
    /\ jar_op = "replaced"
    /\ Len(cookies_) = MaxCookies
    /\ Last(cookies_).value = "2"
    /\ Last(cookies_).path = "/x"

\* ------------------------------------------------------- session properties

\* The "name=value" pair of a cookie, as the Cookie header carries it.
pair(c) == c.name \o "=" \o c.value

\* C12: the second of two sequential requests to the origin on which the
\* first ended cleanly (no Connection: close) reuses the pooled connection:
\* its first acquire dials no new connection.
C12_SecondRequestReusesConnection ==
    [][ ( /\ pc = "acquire"
          /\ pc' = "send"
          /\ nreq = SequentialRequests
          /\ redirects = 0
          /\ result.ec = "success"
          /\ ~result.resp.connection_close
          /\ origin(result.resp.url) = origin(current_url) )
        => connections' = connections ]_vars

\* C15: session::close() leaves no connection in the pool, and a request
\* made after it completes with an error, without entering the request loop,
\* acquiring or dialing.
C15_ClosedSessionRefusesRequests ==
    /\ [][ (~close_called /\ close_called')
           => \A k \in PoolKeys : pools_'[k] = <<>> ]_vars
    /\ [][ (close_called /\ nreq' # nreq)
           => ( /\ pc' = "done"
                /\ result'.ec \notin {"", "success"}
                /\ connections' = connections
                /\ held' = held ) ]_vars

\* C17: the cookie of a Set-Cookie header is in the jar as soon as its
\* response is read, whatever the status (redirects and 404 included); every
\* request sent carries the jar's cookie for its host; so the first hop of
\* the second request carries the cookie the first request's final response
\* set for that host.
C17_CookiesVisibleToNextRequest ==
    /\ []( (pc = "loop" /\ resp.set_cookie # "")
           => \E i \in 1 .. Len(cookies_) :
                 /\ cookies_[i].domain = current_url.host
                 /\ pair(cookies_[i]) = resp.set_cookie )
    /\ []( (pc = "read" /\ hop # NoHop)
           => \A i \in 1 .. Len(cookies_) :
                 cookies_[i].domain = hop.url.host
                 => hop.cookie = pair(cookies_[i]) )
    /\ []( ( /\ nreq = SequentialRequests
             /\ pc = "read"
             /\ redirects = 0
             /\ result.resp.set_cookie # ""
             /\ result.resp.url.host = hop.url.host )
           => hop.cookie = result.resp.set_cookie )

\* The second request carries a cookie that a redirect response of the first
\* request set, the final response (a 404) having set none.
C17_Witness ==
    /\ nreq = SequentialRequests
    /\ pc = "read"
    /\ redirects = 0
    /\ result.resp.status = 404
    /\ result.resp.set_cookie = ""
    /\ result.resp.url.host # hop.url.host
    /\ hop.cookie = "sid=2"

\* C18: a request whose deadline has passed completes with error timeout;
\* after the deadline no further hop is sent and no connection is put in a
\* free list.
C18_TimeoutReportedOnce ==
    /\ []((pc = "done" /\ deadline_expired) => result.ec = "timeout")
    /\ [][ deadline_expired
           => (~(pc = "send" /\ pc' = "read") /\ pools_' = pools_) ]_vars

\* ------------------------------------------------------ pipeline properties

LookedUp == lookup.url # NoURL

\* The cookies get_cookies returned to the latest lookup, as a set.
Returned == { lookup.cookies[i] : i \in 1 .. Len(lookup.cookies) }

\* s ends with suffix.
ends_with(s, suffix) ==
    /\ Len(suffix) <= Len(s)
    /\ SubSeq(s, Len(s) - Len(suffix) + 1, Len(s)) = suffix

\* RFC 6265 domain matching: the host is the domain, or ends with "." and
\* the domain.
domain_match(host, domain) ==
    host = domain \/ ends_with(host, "." \o domain)

\* C21: get_cookies returns a cookie only for a URL whose host is the
\* cookie's domain or ends with "." followed by the domain: a cookie of
\* example.com is not returned for notexample.com or example.com.evil.com.
C21_DomainSuffixMatch ==
    LookedUp =>
        \A c \in Returned : domain_match(lookup.url.host, c.domain)

\* RFC 6265 path matching (5.1.4): the paths are equal, or the cookie's path
\* is a prefix of the request's path and either ends with "/" or is followed
\* by "/" in the request's path.
path_match(req_path, cookie_path) ==
    \/ req_path = cookie_path
    \/ /\ starts_with(req_path, cookie_path)
       /\ \/ ends_with(cookie_path, "/")
          \/ starts_with(req_path, cookie_path \o "/")

\* C22: get_cookies returns a cookie only for a URL whose path path-matches
\* the cookie's path: a cookie of /api is returned for /api and /api/x, and
\* not for /apix.
C22_PathMatch ==
    LookedUp =>
        \A c \in Returned : path_match(lookup.url.path, c.path)

\* The "name=value" pairs of a Cookie header value, in order.
RECURSIVE header_pairs(_)
header_pairs(h) ==
    IF h = "" THEN <<>>
    ELSE LET semi == find(h, ";")
         IN  IF semi = 0 THEN << h >>
             ELSE << SubSeq(h, 1, semi - 1) >>
                     \o header_pairs(SubSeq(h, semi + 2, Len(h)))

\* The cookies of the jar without the secure flag.
NonSecure == { i \in 1 .. Len(cookies_) : ~cookies_[i].secure }

\* C23: for a URL whose scheme is not https, get_cookies returns no cookie
\* with the secure flag, and every pair of the Cookie header is the pair of
\* a cookie of the jar without the flag, one pair per cookie at most.
C23_SecureOnlyOverHttps ==
    (LookedUp /\ lookup.url.scheme # "https") =>
        /\ \A c \in Returned : ~c.secure
        /\ \A k \in 1 .. Len(header_pairs(lookup.header)) :
              \E i \in NonSecure : pair(cookies_[i]) = header_pairs(lookup.header)[k]
        /\ Len(header_pairs(lookup.header)) <= Cardinality(NonSecure)

\* A jar with a secure session cookie and another cookie was asked, over
\* http, about the secure cookie's own domain and path, and returned only
\* the other cookie.
C23_Witness ==
    /\ LookedUp
    /\ lookup.url.scheme = "http"
    /\ \E i \in 1 .. Len(cookies_) :
          /\ cookies_[i].secure
          /\ cookies_[i].expires = NoExpiry
          /\ cookies_[i].domain = lookup.url.host
          /\ cookies_[i].path = lookup.url.path
    /\ Len(lookup.cookies) = 1
    /\ lookup.header # ""

\* The cookies of the jar that the URL of the lookup matches in domain, path
\* and secure flag, whatever their expiry.
Eligible ==
    { i \in 1 .. Len(cookies_) :
        /\ cookies_[i].domain = lookup.url.host
        /\ cookies_[i].path = lookup.url.path
        /\ (cookies_[i].secure => lookup.url.scheme = "https") }

\* C24: a cookie is expired exactly when it has an expiry and the clock is
\* past it: get_cookies returns no cookie whose expiry the clock has passed,
\* and returns the session cookies and the cookies whose expiry is the
\* current instant or later, when the URL matches them otherwise.
C24_ExpiredNeverReturned ==
    LookedUp =>
        /\ \A c \in Returned : ~(c.expires # NoExpiry /\ now > c.expires)
        /\ \A i \in Eligible :
              (cookies_[i].expires = NoExpiry \/ now <= cookies_[i].expires)
                  => cookies_[i] \in Returned

\* A jar with a cookie whose expiry has passed and a session cookie was
\* asked about a URL that matches both, and returned the session cookie only.
C24_Witness ==
    /\ LookedUp
    /\ \E i, j \in Eligible :
          /\ cookies_[i].expires # NoExpiry
          /\ now > cookies_[i].expires
          /\ cookies_[j].expires = NoExpiry
          /\ lookup.cookies = << cookies_[j] >>

\* C25: the cookies get_cookies returns are sorted by path length, longest
\* first.
C25_LongestPathFirst ==
    LookedUp =>
        \A i, j \in 1 .. Len(lookup.cookies) :
            i < j => Len(lookup.cookies[i].path) >= Len(lookup.cookies[j].path)

\* The jar holds one cookie, a session cookie without the secure flag, and
\* the lookup was for an http URL of the cookie's domain and path.
OwnURLOfOnlyCookie ==
    /\ LookedUp
    /\ Len(cookies_) = 1
    /\ ~cookies_[1].secure
    /\ cookies_[1].expires = NoExpiry
    /\ lookup.url = MatchURL("http", cookies_[1].domain, cookies_[1].path)

\* C26: the Cookie header for the URL of the only cookie of a jar, a
\* non-secure session cookie, is exactly its "name=value"; the header of
\* several matching cookies is their pairs joined by "; ", and the header
\* is the empty string when no cookie matches.
C26_CookieHeaderFormat ==
    /\ OwnURLOfOnlyCookie =>
          lookup.header = cookies_[1].name \o "=" \o cookies_[1].value
    /\ (LookedUp /\ Len(lookup.cookies) = 0) => lookup.header = ""
    /\ (LookedUp /\ Len(lookup.cookies) = 2) =>
          lookup.header = pair(lookup.cookies[1]) \o "; " \o pair(lookup.cookies[2])
    /\ LookedUp =>
          header_pairs(lookup.header) =
              [i \in 1 .. Len(lookup.cookies) |-> pair(lookup.cookies[i])]

\* The session cookie sid=1 of example.com/api, alone in the jar, was looked
\* up for http://example.com/api.
C26_Witness ==
    /\ OwnURLOfOnlyCookie
    /\ lookup.url = MatchURL("http", "example.com", "/api")
    /\ lookup.header = "sid=1"

\* The value of the Domain attribute of a Set-Cookie header value, "" when
\* it has none.
domain_attribute(h) ==
    LET at == { i \in 1 .. Len(h) - 6 : SubSeq(h, i, i + 6) = "Domain=" }
    IN  IF at = {} THEN ""
        ELSE LET i == CHOOSE i \in at : \A j \in at : i <= j
                 rest == SubSeq(h, i + 7, Len(h))
                 semi == find(rest, ";")
             IN  IF semi = 0 THEN rest ELSE SubSeq(rest, 1, semi - 1)

\* The Set-Cookie header names a domain that the request's host is not in.
foreign_domain(h, request_url) ==
    /\ domain_attribute(h) # ""
    /\ ~domain_match(request_url.host, domain_attribute(h))

\* C27: set_from_header of a Set-Cookie header whose Domain attribute is not
\* a suffix of the request's host leaves the jar unchanged.
C27_ForeignDomainRejected ==
    [][ \A h \in SetCookieHeaders, url \in JarURLs :
            (foreign_domain(h, url) /\ set_from_header(h, url))
                => cookies_' = cookies_ ]_vars

\* ----------------------------------------------------------- auth properties

\* C28: apply of an http_digest_auth leaves the request unchanged before any
\* challenge, and sets a Digest Authorization header once process_challenge
\* was given a Digest challenge with a realm and a nonce.
C28_DigestAppliesAfterChallenge ==
    auth_req.by = "digest" =>
        IF challenged
        THEN starts_with(auth_req.after, "Digest ")
        ELSE auth_req.after = auth_req.before

\* C29: two http_basic_auth objects with different credentials set different
\* Authorization headers.
C29_BasicHeaderFromCredentials ==
    \A cr1, cr2 \in Credentials :
        (cr1 # cr2 /\ basic_sent[cr1] # "" /\ basic_sent[cr2] # "")
            => basic_sent[cr1] # basic_sent[cr2]

\* ------------------------------------------------------ response properties

\* raise_for_status was called.
Checked == checked # NoCheck

\* C30: raise_for_status throws an http_error exactly when the status is 400
\* or more, which is exactly when ok() is false; the error carries the
\* status, the reason phrase and the URL of the response; below 400 nothing
\* is thrown.
C30_RaiseForStatus ==
    Checked =>
        /\ (checked.thrown # NoError) <=> (checked.status >= 400)
        /\ (checked.thrown # NoError) <=> ~checked.ok
        /\ checked.thrown # NoError =>
              /\ checked.thrown.status_code_ = checked.status
              /\ checked.thrown.reason_ = checked.reason
              /\ starts_with(checked.thrown.url_,
                             checked.url.scheme \o "://" \o checked.url.host)
              /\ ends_with(checked.thrown.url_, checked.url.path)

\* A response with status 400 was checked, and the http_error thrown for it
\* carries the 400.
C30_Witness ==
    /\ Checked
    /\ checked.status = 400
    /\ checked.thrown.status_code_ = 400
    /\ checked.thrown.what_ = "400 Not Found: https://example.com/api"

\* ------------------------------------------------- jar operation properties

\* The cookies of a jar whose key is not that of c, in the jar's order.
others(jar, c) == SelectSeq(jar, LAMBDA e : key_of(e) # key_of(c))

\* C35: a set on a triple already in the jar leaves the new cookie last in
\* the jar's order, after every cookie that was in the jar before, and the
\* other cookies in their relative order.
C35_ReplacedCookieMovesLast ==
    [][ \A c \in JarCookies :
            (set(c) /\ \E i \in 1 .. Len(cookies_) : key_of(cookies_[i]) = key_of(c))
                => /\ cookies_'[Len(cookies_')] = c
                   /\ SubSeq(cookies_', 1, Len(cookies_') - 1) = others(cookies_, c) ]_vars

\* A cookie that was not the last of the jar was replaced: it now is last,
\* behind a cookie that was set after it.
C35_Witness ==
    /\ jar_op = "replaced_earlier"
    /\ Len(cookies_) = MaxCookies
    /\ cookies_[Len(cookies_)].value = "2"

\* The part of a Set-Cookie header value before its first ";": its longest
\* prefix without one.
before_semicolon(h) ==
    LET k == CHOOSE k \in 0 .. Len(h) :
                /\ ~contains(SubSeq(h, 1, k), ";")
                /\ k < Len(h) => SubSeq(h, k + 1, k + 1) = ";"
    IN  SubSeq(h, 1, k)

past_expiry(c) == c.expires # NoExpiry /\ now > c.expires

\* C37: remove_expired removes exactly the cookies whose expiry has passed
\* and keeps the others as they are, in their order; before that, a cookie
\* whose expiry has passed stays in the jar, counted by size(), and
\* get_cookies does not return it.
C37_RemoveExpiredExactly ==
    /\ [][ remove_expired =>
              cookies_' = SelectSeq(cookies_, LAMBDA c : ~past_expiry(c)) ]_vars
    /\ [][ now' # now => cookies_' = cookies_ ]_vars
    /\ [](LookedUp =>
            /\ \A i \in 1 .. Len(cookies_) :
                  past_expiry(cookies_[i]) => cookies_[i] \notin Returned
            /\ Len(cookies_) >= Len(lookup.cookies)
                  + Cardinality({ i \in 1 .. Len(cookies_) : past_expiry(cookies_[i]) }))

\* remove_expired removed a cookie and left another.
C37_Witness ==
    /\ jar_op = "expired_removed"
    /\ Len(cookies_) >= 1
    /\ \A i \in 1 .. Len(cookies_) : cookies_[i].expires = NoExpiry

\* ------------------------------------------------------- clone properties

\* The username, password and challenge state of an http_digest_auth.
digest_state(auth) ==
    << auth.username_, auth.password_, auth.realm_, auth.nonce_, auth.opaque_,
       auth.qop_, auth.algorithm_, auth.nc_ >>

is_cluster(arg) ==
    Len(arg) > 1 /\ SubSeq(arg, 1, 1) = "-" /\ SubSeq(arg, 1, 2) # "--"

\* The short options the model knows that take a value, and the flags.
ValueLetters == {"d", "o"}
FlagLetters == {"v", "s", "L"}

\* The flags that are set in parsed args, by their short letters.
flags_set(args) ==
    { c \in FlagLetters : \/ c = "v" /\ args.verbose
                          \/ c = "s" /\ args.silent
                          \/ c = "L" /\ args.follow_redirects }

\* The position in a cluster (after its "-") of its first value-taking
\* letter, 0 when it has none.
first_value_letter(letters) ==
    LET at == { j \in 1 .. Len(letters) : SubSeq(letters, j, j) \in ValueLetters }
    IN  IF at = {} THEN 0 ELSE CHOOSE j \in at : \A k \in at : j <= k

\* The values parsed args hold for a value-taking short letter.
values_of(args, c) == IF c = "d" THEN args.data ELSE args.output

\* No argument after the first was read as an option.
OnlyFirstIsOption ==
    \A k \in 2 .. Len(cli.argv) : "option" \notin { cli.uses[k][n] : n \in 1 .. Len(cli.uses[k]) }

\* C31: a successful parse of a command line that begins with a cluster of
\* short options has set every flag of the cluster before its first
\* value-taking letter; that letter's value is the rest of the cluster when
\* there is one and the next argument otherwise, and nothing after the
\* letter is read as a flag.
C31_ShortClusterLeftToRight ==
    (cli.called /\ Len(cli.argv) >= 1 /\ is_cluster(cli.argv[1]) /\ cli.result.ec = 0) =>
        LET letters == SubSeq(cli.argv[1], 2, Len(cli.argv[1]))
            k == first_value_letter(letters)
            flags == { SubSeq(letters, j, j) :
                         j \in 1 .. (IF k = 0 THEN Len(letters) ELSE k - 1) }
        IN  /\ flags \subseteq flags_set(cli.result.args)
            /\ OnlyFirstIsOption => flags_set(cli.result.args) = flags
            /\ k # 0 =>
                  /\ Len(values_of(cli.result.args, SubSeq(letters, k, k))) >= 1
                  /\ values_of(cli.result.args, SubSeq(letters, k, k))[1] =
                        IF k < Len(letters)
                        THEN SubSeq(letters, k + 1, Len(letters))
                        ELSE cli.argv[2]
                  /\ k < Len(letters) => (Len(cli.argv) >= 2 => cli.uses[2] # << "value" >>)
                  /\ k = Len(letters) => cli.uses[2] = << "value" >>

\* "-dv k=v" was parsed: the data is "v", verbose is not set and k=v is a URL.
C31_Witness ==
    /\ cli.called
    /\ cli.argv = << "-dv", "k=v" >>
    /\ cli.result.ec = 0
    /\ cli.result.args.data = << "v" >>
    /\ ~cli.result.args.verbose
    /\ cli.result.args.urls = << "k=v" >>

\* The roles in which argument k was read.
roles(k) == { cli.uses[k][n] : n \in 1 .. Len(cli.uses[k]) }

\* The positions of the arguments "--" that are not the value of an option.
Terminators ==
    { p \in 1 .. Len(cli.argv) : cli.argv[p] = "--" /\ "value" \notin roles(p) }

\* C32: when an argument "--" is met that is not an option's value, the
\* parse succeeds, the arguments after the first such "--" are the last
\* elements of urls, in their order, and none of them is read as an option
\* or as a value.
C32_EverythingAfterTerminatorIsURL ==
    (cli.called /\ \E p \in Terminators : roles(p) # {}) =>
        LET p == CHOOSE p \in Terminators : \A q \in Terminators : p <= q
            rest == SubSeq(cli.argv, p + 1, Len(cli.argv))
            urls == cli.result.args.urls
        IN  /\ cli.result.ec = 0
            /\ Len(urls) >= Len(rest)
            /\ SubSeq(urls, Len(urls) - Len(rest) + 1, Len(urls)) = rest
            /\ \A k \in (p + 1) .. Len(cli.argv) : cli.uses[k] = << "url" >>

\* "-- -vsL --bogus" was parsed: both arguments after "--" are URLs.
C32_Witness ==
    /\ cli.called
    /\ cli.argv = << "--", "-vsL", "--bogus" >>
    /\ cli.result.ec = 0
    /\ cli.result.args.urls = << "-vsL", "--bogus" >>
    /\ ~cli.result.args.verbose

\* The long options the model knows that take a value.
ValueLongNames == {"data", "output"}

\* The command line with its argument p, "--name=value", written as the two
\* arguments "--name" and "value".
two_argument_form(argv, p, name) ==
    SubSeq(argv, 1, p - 1)
        \o << "--" \o name,
              SubSeq(argv[p], Len(name) + 4, Len(argv[p])) >>
        \o SubSeq(argv, p + 1, Len(argv))

\* C33: a command line with a value-taking long option written
\* "--name=value" parses to the result of the command line that has
\* "--name" and "value" as two arguments in its place, the value being all
\* that follows the first "="; "--data=k=v" stores "k=v".
C33_EqualsFormSameAsTwoArguments ==
    cli.called =>
        /\ \A p \in 1 .. Len(cli.argv), name \in ValueLongNames :
              ( /\ starts_with(cli.argv[p], "--" \o name \o "=")
                /\ roles(p) = {"option"} )
                  => cli.result = parse_args(two_argument_form(cli.argv, p, name)).result
        /\ cli.argv = << "--data=k=v" >> => cli.result.args.data = << "k=v" >>

\* "--data=k=v" alone was parsed and stored the data "k=v".
C33_Witness ==
    /\ cli.called
    /\ cli.argv = << "--data=k=v" >>
    /\ cli.result.ec = 0
    /\ cli.result.args.data = << "k=v" >>
    /\ cli.result = parse_args(<< "--data", "k=v" >>).result

\* The long options the model knows.
KnownLongNames == {"verbose", "silent", "location"} \cup ValueLongNames

\* The name of the option that makes argument p of argv an error when p is
\* read as an option, "" when it makes none: an unknown long option or short
\* letter, or a value-taking option that ends the command line with no value.
option_in_error(argv, p) ==
    LET arg == argv[p]
    IN  IF Len(arg) > 2 /\ SubSeq(arg, 1, 2) = "--"
        THEN LET eqs == { j \in 3 .. Len(arg) : SubSeq(arg, j, j) = "=" }
                 name == IF eqs = {} THEN SubSeq(arg, 3, Len(arg))
                         ELSE SubSeq(arg, 3, (CHOOSE j \in eqs : \A k \in eqs : j <= k) - 1)
             IN  IF name \notin KnownLongNames THEN "--" \o name
                 ELSE IF name \in ValueLongNames /\ eqs = {} /\ p = Len(argv)
                 THEN "--" \o name
                 ELSE ""
        ELSE IF is_cluster(arg)
        THEN LET letters == SubSeq(arg, 2, Len(arg))
                 at == { j \in 1 .. Len(letters) : SubSeq(letters, j, j) \notin FlagLetters }
             IN  IF at = {} THEN ""
                 ELSE LET j == CHOOSE j \in at : \A k \in at : j <= k
                          c == SubSeq(letters, j, j)
                      IN  IF c \notin ValueLetters THEN "-" \o c
                          ELSE IF j = Len(letters) /\ p = Len(argv) THEN "-" \o c
                          ELSE ""
        ELSE ""

\* C34: when an argument read as an option is an unknown option, or a
\* value-taking option that ends the command line without a value, the
\* result has a failed ec and an error_message that contains the option's
\* name, and no argument after it is read; a failed result comes from such
\* an argument only.
C34_MissingValueOrUnknownOptionFails ==
    cli.called =>
        /\ \A p \in 1 .. Len(cli.argv) :
              ("option" \in roles(p) /\ option_in_error(cli.argv, p) # "") =>
                  /\ cli.result.ec # 0
                  /\ contains(cli.result.error_message, option_in_error(cli.argv, p))
                  /\ \A k \in (p + 1) .. Len(cli.argv) : cli.uses[k] = <<>>
        /\ cli.result.ec # 0 =>
              \E p \in 1 .. Len(cli.argv) :
                  "option" \in roles(p) /\ option_in_error(cli.argv, p) # ""

\* "-vd" ended a command line: the parse failed and names "-d"; and an
\* unknown option stopped a parse before the argument that follows it.
C34_Witness ==
    /\ cli.called
    /\ \/ /\ cli.argv = << "k=v", "-vd" >>
          /\ cli.result.ec # 0
          /\ contains(cli.result.error_message, "-d")
       \/ /\ cli.argv = << "--bogus", "-vsL" >>
          /\ cli.result.ec # 0
          /\ contains(cli.result.error_message, "--bogus")
          /\ cli.uses[2] = <<>>

\* C39: a failed parse reports the default args: nothing of what was parsed
\* before the error is in the result.
C39_FailedParseReportsDefaultArgs ==
    (cli.called /\ cli.result.ec # 0) => cli.result.args = default_args

\* A URL and the flag -v were parsed before an unknown option failed the
\* parse: the result has no URL and verbose is not set.
C39_Witness ==
    /\ cli.called
    /\ cli.argv = << "k=v", "-vsL", "--bogus" >>
    /\ cli.uses = << << "url" >>, << "option" >>, << "option" >> >>
    /\ cli.result.ec # 0
    /\ cli.result.args.urls = << >>
    /\ ~cli.result.args.verbose

\* Argument p of argv, read as an option, is a value-taking option with no
\* value attached: the letter of a short one, "data" or "output" for a long
\* one, "" otherwise.
takes_next_argument(argv, p) ==
    LET arg == argv[p]
    IN  IF Len(arg) > 2 /\ SubSeq(arg, 1, 2) = "--"
        THEN IF arg = "--data" THEN "d" ELSE IF arg = "--output" THEN "o" ELSE ""
        ELSE IF is_cluster(arg)
        THEN LET letters == SubSeq(arg, 2, Len(arg))
                 at == { j \in 1 .. Len(letters) : SubSeq(letters, j, j) \notin FlagLetters }
             IN  IF at = {} THEN ""
                 ELSE LET j == CHOOSE j \in at : \A k \in at : j <= k
                      IN  IF SubSeq(letters, j, j) \in ValueLetters /\ j = Len(letters)
                          THEN SubSeq(letters, j, j)
                          ELSE ""
        ELSE ""

\* C40: the argument that follows a value-taking option with no attached
\* value is read as that option's value and as nothing else, whatever it
\* begins with, and is stored as it is; no argument is read twice.
C40_NextArgumentIsTheValueVerbatim ==
    cli.called =>
        /\ \A k \in 1 .. Len(cli.argv) : Len(cli.uses[k]) <= 1
        /\ \A k \in 2 .. Len(cli.argv) :
              ("option" \in roles(k - 1) /\ takes_next_argument(cli.argv, k - 1) # "") =>
                  /\ cli.uses[k] = << "value" >>
                  /\ cli.result.ec = 0 =>
                        LET args == cli.result.args
                        IN  IF takes_next_argument(cli.argv, k - 1) = "d"
                            THEN \E n \in 1 .. Len(args.data) : args.data[n] = cli.argv[k]
                            ELSE /\ args.output # <<>>
                                 /\ (\A q \in (k + 1) .. Len(cli.argv) : "option" \notin roles(q))
                                       => args.output = << cli.argv[k] >>

\* "--data -- -vsL" was parsed: the data is "--", and -vsL after it is read
\* as options.
C40_Witness ==
    /\ cli.called
    /\ cli.argv = << "--data", "--", "-vsL" >>
    /\ cli.result.ec = 0
    /\ cli.result.args.data = << "--" >>
    /\ cli.result.args.urls = << >>
    /\ cli.result.args.verbose
    /\ cli.uses[2] = << "value" >>

====
